---- MODULE Spec2Model ----
(***************************************************************************)
(* HoverLookup: the multi-source lookup engine.                            *)
(*   Local Index      src/src/utils/database.js                            *)
(*   Remote Search    src/src/utils/mongoDatabase.js (connect, search)     *)
(*   Result Cache     src/src/utils/mongoDatabase.js (mongoCache)          *)
(*   Coordinator      src/src/providers/hoverProvider.js (asynchronous)    *)
(*                    src/src/adapters/debugAdapter.js  (synchronous)      *)
(***************************************************************************)
EXTENDS Integers, Sequences, FiniteSets, TLC

VARIABLES
    fs,                  \* the file system: path -> content of the file
    database,            \* database.js:5   own properties of the index object
    databaseSources,     \* database.js:10  Map key -> file name
    idField,             \* database.js:7   current id field(s)
    rawJsonData,         \* database.js:8   parsed content of the last file read
    enableJsonDatabase,  \* setting hoverLookup.enableJsonDatabase
    loadResult,          \* the last loadLocalDatabase / reindexDatabase call: its
                         \* input, the id field it found and what it returned
    databasePaths,       \* setting hoverLookup.databasePaths
    fileWatchers,        \* extension.js:20  the watchers that are not disposed
    enableMongoDB,       \* setting hoverLookup.enableMongoDB
    mongodbUrl,          \* setting hoverLookup.mongodbUrl ("" when not configured)
    mongodbDatabases,    \* setting hoverLookup.mongodbDatabases
    mongodbCollections,  \* setting hoverLookup.mongodbCollections
    maxCacheSize,        \* setting hoverLookup.mongodbMaxCacheSize (0: not set)
    cacheTtlMinutes,     \* setting hoverLookup.mongodbCacheTtlMinutes (0: not set)
    store,               \* the documents of the server: <<db, collection>> -> list
    serverUp,            \* whether the server answers
    mongoClient,         \* mongoDatabase.js:5   shared handle (0 is null)
    clients,             \* every MongoClient created so far, by number: its state
    mongoCache,          \* mongoDatabase.js:12  Map in insertion order
    now,                 \* Date.now(), in milliseconds
    tasks,               \* the searchMongoDatabase calls in flight
    disconnecting,       \* the client a disconnectMongo() in flight is closing (0: none)
    last                 \* the call that returned in the step just taken (a
                         \* resolution, a remote search, a cache operation): its
                         \* input, what held when it was made, what it returned

watchVars == <<databasePaths, fileWatchers>>

localVars == <<fs, database, databaseSources, idField, rawJsonData, loadResult,
               watchVars>>

configVars == <<mongodbUrl, mongodbDatabases, mongodbCollections, store>>

cacheConfigVars == <<maxCacheSize, cacheTtlMinutes>>

connVars == <<mongoClient, clients, tasks, disconnecting>>

vars == <<fs, database, databaseSources, idField, rawJsonData, enableJsonDatabase,
          loadResult, enableMongoDB, mongodbUrl, mongodbDatabases, mongodbCollections,
          maxCacheSize, cacheTtlMinutes, store, serverUp, mongoClient, clients,
          mongoCache, now, tasks, disconnecting, last, databasePaths, fileWatchers>>

----------------------------------------------------------------------------
(* JavaScript values.  A value carries its type and its string form, so    *)
(* that String(1) and String("1") are the same key "1" while 1 and "1"     *)
(* stay different values.                                                  *)

Undefined == [t |-> "undefined", s |-> "undefined"]
Null == [t |-> "null", s |-> "null"]
Num(s) == [t |-> "number", s |-> s]
Str(s) == [t |-> "string", s |-> s]

\* String(v)
JsString(v) == v.s

\* The properties every plain object {} inherits from Object.prototype: the
\* `in` operator and the bracket read see them (two of them are modelled).
ObjectPrototypeKeys == {"constructor", "toString"}

\* The inherited value read by database["constructor"]: a function object.
ProtoValue(k) == [t |-> "function", s |-> k]

\* item[field]
Get(item, field) == IF field \in DOMAIN item THEN item[field] ELSE Undefined

\* `key in database` on a plain object (database.js:107, 119)
HasKey(db, k) == k \in DOMAIN db \/ k \in ObjectPrototypeKeys

\* database[String(searchValue)] (hoverProvider.js:74, debugAdapter.js:30)
DbRead(db, k) ==
    IF k \in DOMAIN db THEN db[k]
    ELSE IF k \in ObjectPrototypeKeys THEN ProtoValue(k)
    ELSE Undefined

\* A provenance label is the list of the parts of its text: <<"db.json">>,
\* <<"MongoDB", "db1">>, <<"MongoDB", "db1", "(cached)">>; <<>> is null.
NoSource == <<>>

\* databaseSources.get(String(key)) || null (database.js:34-36)
GetDatabaseSource(srcs, k) == IF k \in DOMAIN srcs THEN <<srcs[k]>> ELSE NoSource

\* JavaScript truthiness of what a lookup yields (records and functions are
\* truthy, undefined is not)
Truthy(x) == x # Undefined /\ x # Null

EmptyMap == [k \in {} |-> Undefined]

remoteVars == <<enableMongoDB, mongodbUrl, mongodbDatabases, mongodbCollections,
                maxCacheSize, cacheTtlMinutes, store, serverUp, mongoClient, clients,
                mongoCache, now, tasks, disconnecting>>

\* The step just taken returned from no call.
NoCall == [op |-> "none"]

----------------------------------------------------------------------------
(* The file system and the shapes a database file can have.                *)

\* Records of the example files (arbitrary field -> value mappings).
John == [id |-> Num("1"), email |-> Str("a@b"), name |-> Str("John")]
Jane == [id |-> Str("1"), name |-> Str("Jane")]
Mail == [id |-> Null, email |-> Str("a@b"), name |-> Str("Mail")]
Anon == [name |-> Str("Anon")]
Ctor == [id |-> Str("constructor"), name |-> Str("Ctor")]

\* A path that does not exist (fs.existsSync is false).
Missing == [shape |-> "missing"]
\* A file whose text is not JSON (JSON.parse throws).
BadJson == [shape |-> "invalid"]
\* { "idField": ..., "data": [...] }; idf = <<>> stands for no idField property.
\* A single field name is the one-element list (database.js:99).
Structured(idf, data) == [shape |-> "structured", idf |-> idf, data |-> data]
\* A flat object { "<key>": record, ... }
Flat(m) == [shape |-> "flat", map |-> m]

FileUsers == Structured(<<"id">>, <<John, Ctor, Anon>>)
FileMulti == Structured(<<"id", "email">>, <<Mail, Jane>>)
FileNoId == Structured(<<>>, <<Jane, Mail>>)
FileFlat == Flat(("1" :> Jane) @@ ("toString" :> Anon) @@ ("k" :> Mail))
FileEmpty == Flat(EmptyMap)
FileCtor == Structured(<<"email", "id">>, <<Ctor, Anon, John>>)

FileContents == {Missing, BadJson, FileUsers, FileMulti, FileNoId, FileFlat, FileEmpty}

Paths == {"a/db.json", "b/db.json", "c.json"}

\* path.basename(filePath) (database.js:90)
Basename(p) == IF p = "c.json" THEN "c.json" ELSE "db.json"

IdFieldChoices == {<<"id">>, <<"email">>, <<"email", "id">>}

\* The configured path lists: every list of one or two distinct paths.
PathLists ==
    {<<p>> : p \in Paths} \cup ({<<p, q>> : p, q \in Paths} \ {<<p, p>> : p \in Paths})

----------------------------------------------------------------------------
(* Local Index: loadLocalDatabase and reindexDatabase (database.js).       *)

NullRaw == [shape |-> "null"]

\* database.js:103-112: the position in idFields of the first field whose
\* value on the item is neither undefined nor null; 0 when there is none.
RECURSIVE FirstField(_, _, _)
FirstField(item, idFields, j) ==
    IF j > Len(idFields) THEN 0
    ELSE IF Get(item, idFields[j]) # Undefined /\ Get(item, idFields[j]) # Null
         THEN j
         ELSE FirstField(item, idFields, j + 1)

\* database.js:107-110 (and 119-122): insert only when the key is not `in`
\* the index object.
AddFirstWins(idx, k, rec, fileName) ==
    IF HasKey(idx.db, k) THEN idx
    ELSE [db |-> (k :> rec) @@ idx.db, src |-> (k :> fileName) @@ idx.src]

\* database.js:101-114: the loop over jsonData.data
RECURSIVE IndexData(_, _, _, _, _)
IndexData(idx, data, i, idFields, fileName) ==
    IF i > Len(data) THEN idx
    ELSE LET item == data[i]
             j == FirstField(item, idFields, 1)
             next == IF j = 0 THEN idx
                     ELSE AddFirstWins(idx, JsString(Get(item, idFields[j])), item, fileName)
         IN IndexData(next, data, i + 1, idFields, fileName)

\* database.js:118-123: the loop over the keys of a flat object (its keys
\* are distinct, so the enumeration order does not change the outcome)
IndexFlat(idx, m, fileName) ==
    LET new == {k \in DOMAIN m : ~HasKey(idx.db, k)}
    IN [db |-> [k \in DOMAIN idx.db \cup new |->
                   IF k \in DOMAIN idx.db THEN idx.db[k] ELSE m[k]],
        src |-> [k \in DOMAIN idx.src \cup new |->
                   IF k \in new THEN fileName ELSE idx.src[k]]]

\* database.js:81-126: the loop over the paths, from position i on.  st holds
\* the module state and the locals loadedAny, invalidPaths; threw records an
\* exception (JSON.parse), which leaves the loop at once.
RECURSIVE LoadFiles(_, _, _, _)
LoadFiles(files, paths, i, st) ==
    IF i > Len(paths) \/ st.threw THEN st
    ELSE LET c == files[paths[i]] IN
         IF c.shape = "missing"
         THEN LoadFiles(files, paths, i + 1,
                        [st EXCEPT !.invalidPaths = Append(@, paths[i])])
         ELSE IF c.shape = "invalid"
         THEN [st EXCEPT !.threw = TRUE]
         ELSE IF c.shape = "structured"
         THEN LET idf == IF c.idf # <<>> THEN c.idf ELSE st.idField
                  idx == IndexData([db |-> st.db, src |-> st.src], c.data, 1,
                                   idf, Basename(paths[i]))
              IN LoadFiles(files, paths, i + 1,
                           [st EXCEPT !.db = idx.db, !.src = idx.src, !.idField = idf,
                                      !.raw = c, !.loadedAny = TRUE])
         ELSE LET idx == IndexFlat([db |-> st.db, src |-> st.src], c.map,
                                   Basename(paths[i]))
              IN LoadFiles(files, paths, i + 1,
                           [st EXCEPT !.db = idx.db, !.src = idx.src,
                                      !.raw = c, !.loadedAny = TRUE])

\* database.js:66-163: the module state loadLocalDatabase(paths) leaves and
\* the value it returns (ok).
LoadOutcome(files, paths, idf, raw) ==
    LET st == LoadFiles(files, paths, 1,
                        [db |-> EmptyMap, src |-> EmptyMap, idField |-> idf, raw |-> raw,
                         loadedAny |-> FALSE, invalidPaths |-> <<>>, threw |-> FALSE])
    IN [db |-> st.db, src |-> st.src, idField |-> st.idField, raw |-> st.raw,
        invalidPaths |-> st.invalidPaths, ok |-> ~st.threw /\ st.loadedAny]

\* loadLocalDatabase(filePaths)
LoadLocalDatabase(paths) ==
    /\ IF Len(paths) = 0
       THEN /\ UNCHANGED <<database, databaseSources, idField, rawJsonData>>
            /\ loadResult' = [op |-> "load", paths |-> paths, ok |-> FALSE,
                              invalidPaths |-> <<>>, idFieldBefore |-> idField]
       ELSE LET out == LoadOutcome(fs, paths, idField, rawJsonData) IN
            /\ database' = out.db
            /\ databaseSources' = out.src
            /\ idField' = out.idField
            /\ rawJsonData' = out.raw
            /\ loadResult' = [op |-> "load", paths |-> paths, ok |-> out.ok,
                              invalidPaths |-> out.invalidPaths,
                              idFieldBefore |-> idField]
    /\ last' = NoCall
    /\ UNCHANGED <<fs, watchVars, enableJsonDatabase, remoteVars>>

\* database.js:184-193: the loop of reindexDatabase: no `in` test, a later
\* record with the same key replaces the earlier one.
RECURSIVE ReindexData(_, _, _, _)
ReindexData(db, data, i, idFields) ==
    IF i > Len(data) THEN db
    ELSE LET item == data[i]
             j == FirstField(item, idFields, 1)
             k == JsString(Get(item, idFields[j]))
         IN ReindexData(IF j = 0 THEN db
                        ELSE [x \in DOMAIN db \cup {k} |-> IF x = k THEN item ELSE db[x]],
                        data, i + 1, idFields)

\* The paths of the sources the last successful load has loaded (an
\* observation for the properties, reindexDatabase does not read it).
LastLoaded ==
    IF loadResult.op = "reindex" THEN loadResult.paths
    ELSE IF loadResult.op = "load" /\ loadResult.ok
    THEN SelectSeq(loadResult.paths, LAMBDA p : fs[p].shape \in {"structured", "flat"})
    ELSE <<>>

\* reindexDatabase(newIdField)
ReindexDatabase(newIdField) ==
    /\ IF rawJsonData.shape # "structured"
       THEN /\ UNCHANGED <<database, idField>>
            /\ loadResult' = [op |-> "reindex", paths |-> LastLoaded, ok |-> FALSE,
                              invalidPaths |-> <<>>, idFieldBefore |-> idField]
       ELSE /\ idField' = newIdField
            /\ database' = ReindexData(EmptyMap, rawJsonData.data, 1, newIdField)
            /\ loadResult' = [op |-> "reindex", paths |-> LastLoaded, ok |-> TRUE,
                              invalidPaths |-> <<>>, idFieldBefore |-> idField]
    /\ last' = NoCall
    /\ UNCHANGED <<fs, watchVars, databaseSources, rawJsonData, enableJsonDatabase,
                   remoteVars>>

----------------------------------------------------------------------------
(* Automatic reload: the file watchers and the databasePaths setting       *)
(* (extension.js).                                                         *)

\* The file at the default location of the workspace, lookup-database.json
\* (database.js:237).
DefaultPath == "c.json"

\* getDatabasePath() in a workspace with a folder (database.js:216-242): the
\* configured paths, or the default path when none is configured.
GetDatabasePath(configPaths) ==
    IF Len(configPaths) > 0 THEN configPaths ELSE <<DefaultPath>>

\* A setupFileWatchers that does not dispose the watchers it replaces
\* (without lines 28-32).
SetupFileWatchersKeepingOld(ws, dbPaths) ==
    ws \o [i \in 1..Len(dbPaths) |-> [path |-> dbPaths[i], dbPaths |-> dbPaths]]

\* setupFileWatchers(dbPaths) (extension.js:27-45): the watchers there are
\* are disposed, and one watcher is created for each path, whose handler
\* loads the list dbPaths it was created with.
SetupFileWatchers(ws, dbPaths) ==
    [i \in 1..Len(dbPaths) |-> [path |-> dbPaths[i], dbPaths |-> dbPaths]]

\* The handlers of the watchers ws run one after another on the files:
\* each is loadDatabase(dbPaths) (extension.js:38-40).
RECURSIVE FireWatchers(_, _, _, _)
FireWatchers(files, ws, i, st) ==
    IF i > Len(ws) THEN st
    ELSE LET out == LoadOutcome(files, ws[i].dbPaths, st.idField, st.raw) IN
         FireWatchers(files, ws, i + 1,
                      [db |-> out.db, src |-> out.src, idField |-> out.idField,
                       raw |-> out.raw,
                       result |-> [op |-> "load", paths |-> ws[i].dbPaths,
                                   ok |-> out.ok, invalidPaths |-> out.invalidPaths,
                                   idFieldBefore |-> st.idField]])

\* The content of the file at path p is changed to content: the watchers of
\* that path that are not disposed receive onDidChange.
FileChange(p, content) ==
    /\ fs[p].shape # "missing"
    /\ content # fs[p]
    /\ fs' = [fs EXCEPT ![p] = content]
    /\ LET fired == SelectSeq(fileWatchers, LAMBDA w : w.path = p)
           st == FireWatchers(fs', fired, 1,
                              [db |-> database, src |-> databaseSources,
                               idField |-> idField, raw |-> rawJsonData,
                               result |-> loadResult])
       IN /\ database' = st.db
          /\ databaseSources' = st.src
          /\ idField' = st.idField
          /\ rawJsonData' = st.raw
          /\ loadResult' = st.result
          /\ last' = [op |-> "fileChange", path |-> p, fired |-> Len(fired)]
    /\ UNCHANGED <<watchVars, enableJsonDatabase, remoteVars>>

\* The setting hoverLookup.databasePaths is changed: the handler of
\* onDidChangeConfiguration (extension.js:107-122) loads the new list and
\* sets up the watchers again.
ChangeDatabasePaths(configPaths) ==
    /\ configPaths # databasePaths
    /\ databasePaths' = configPaths
    /\ LET newDbPaths == GetDatabasePath(configPaths)
           out == LoadOutcome(fs, newDbPaths, idField, rawJsonData)
       IN IF Len(newDbPaths) > 0
          THEN /\ database' = out.db
               /\ databaseSources' = out.src
               /\ idField' = out.idField
               /\ rawJsonData' = out.raw
               /\ loadResult' = [op |-> "load", paths |-> newDbPaths, ok |-> out.ok,
                                 invalidPaths |-> out.invalidPaths,
                                 idFieldBefore |-> idField]
               /\ fileWatchers' = SetupFileWatchers(fileWatchers, newDbPaths)
          ELSE UNCHANGED <<database, databaseSources, idField, rawJsonData,
                           loadResult, fileWatchers>>
    /\ last' = [op |-> "pathsChange", before |-> GetDatabasePath(databasePaths)]
    /\ UNCHANGED <<fs, enableJsonDatabase, remoteVars>>

----------------------------------------------------------------------------
(* Result Cache (mongoDatabase.js:12-165).  The Map is the list of its     *)
(* entries in insertion order.                                             *)

DefaultMaxCacheSize == 1000
DefaultCacheTtlMinutes == 1
MsPerMinute == 60 * 1000

\* getMaxCacheSize(): config.get(...) || 1000
GetMaxCacheSize == IF maxCacheSize # 0 THEN maxCacheSize ELSE DefaultMaxCacheSize

\* getCacheTTL(): (config.get(...) || 1) * 60 * 1000
GetCacheTTL ==
    (IF cacheTtlMinutes # 0 THEN cacheTtlMinutes ELSE DefaultCacheTtlMinutes) * MsPerMinute

\* mongoCache.get(key): the position of the entry of key, 0 when there is none
CachePos(cache, key) ==
    IF \E i \in 1..Len(cache) : cache[i].key = key
    THEN CHOOSE i \in 1..Len(cache) : cache[i].key = key
    ELSE 0

\* mongoCache.delete(key)
CacheDelete(cache, key) == SelectSeq(cache, LAMBDA e : e.key # key)

\* mongoCache.set(key, entry): an existing key keeps its position
CacheSet(cache, entry) ==
    IF CachePos(cache, entry.key) # 0
    THEN [cache EXCEPT ![CachePos(cache, entry.key)] = entry]
    ELSE Append(cache, entry)

\* An addToMongoCache that makes room by removing the entry inserted last.
AddToMongoCacheEvictingNewest(cache, key, document, source, t) ==
    LET kept == IF Len(cache) >= GetMaxCacheSize /\ Len(cache) > 0
                THEN SubSeq(cache, 1, Len(cache) - 1)
                ELSE cache
    IN CacheSet(kept, [key |-> key, document |-> document, source |-> source,
                       timestamp |-> t])

\* An addToMongoCache that stores nothing.
AddToMongoCacheNothing(cache, key, document, source, t) == cache

\* addToMongoCache(key, document, source) at time t: the Map it leaves
AddToMongoCache(cache, key, document, source, t) ==
    LET kept == IF Len(cache) >= GetMaxCacheSize /\ Len(cache) > 0
                THEN Tail(cache)
                ELSE cache
    IN CacheSet(kept, [key |-> key, document |-> document, source |-> source,
                       timestamp |-> t])

\* A getFromMongoCache that reports an expired entry absent but leaves it in
\* the Map (lines 148-149 without the delete).
GetFromMongoCacheKeepingExpired(cache, key, t) ==
    LET i == CachePos(cache, key) IN
    IF i = 0 \/ t - cache[i].timestamp > GetCacheTTL
    THEN [hit |-> FALSE, document |-> Undefined, source |-> NoSource, cache |-> cache]
    ELSE [hit |-> TRUE, document |-> cache[i].document, source |-> cache[i].source,
          cache |-> cache]

\* getFromMongoCache(key) at time t: what it returns (hit, document, source)
\* and the Map it leaves
GetFromMongoCache(cache, key, t) ==
    LET i == CachePos(cache, key) IN
    IF i = 0
    THEN [hit |-> FALSE, document |-> Undefined, source |-> NoSource, cache |-> cache]
    ELSE IF t - cache[i].timestamp > GetCacheTTL
    THEN [hit |-> FALSE, document |-> Undefined, source |-> NoSource,
          cache |-> CacheDelete(cache, key)]
    ELSE [hit |-> TRUE, document |-> cache[i].document, source |-> cache[i].source,
          cache |-> cache]

----------------------------------------------------------------------------
(* The remote document store and its configuration.                        *)

\* Documents of the example server.
Ann == [id |-> Str("u1"), email |-> Str("a@b"), name |-> Str("Ann")]
Pen == [sku |-> Str("u1"), name |-> Str("Pen")]
Bob == [id |-> Str("u1"), name |-> Str("Bob")]
One == [id |-> Num("1"), name |-> Str("One")]
Obj == [sku |-> Str("constructor"), name |-> Str("Obj")]
Def == [id |-> Str("u2"), name |-> Str("Def")]

\* The database client.db() names when no name is given.
DefaultDb == "test"

DbNames == {"db1", "db2", DefaultDb}
CollectionNames == {"users", "products"}

StoreA ==
    [dc \in DbNames \X CollectionNames |->
        IF dc = <<"db1", "users">> THEN <<One, Ann>>
        ELSE IF dc = <<"db1", "products">> THEN <<Pen, Obj>>
        ELSE IF dc = <<"db2", "users">> THEN <<Bob>>
        ELSE IF dc = <<DefaultDb, "products">> THEN <<Pen>>
        ELSE IF dc = <<DefaultDb, "users">> THEN <<Def>>
        ELSE <<>>]

StoreB ==
    [dc \in DbNames \X CollectionNames |->
        IF dc = <<"db2", "products">> THEN <<Pen>>
        ELSE IF dc = <<"db1", "products">> THEN <<Obj>>
        ELSE IF dc = <<"db2", "users">> THEN <<Bob, Ann>>
        ELSE <<>>]

\* Entries of hoverLookup.mongodbCollections
NoProject == [on |-> FALSE, fields |-> {}]
CollUsers == [collection |-> "users", searchFields |-> <<"id", "email">>,
              project |-> NoProject]
CollProducts == [collection |-> "products", searchFields |-> <<"sku">>,
                 project |-> [on |-> TRUE, fields |-> {"sku"}]]
CollNoName == [collection |-> "", searchFields |-> <<"id">>, project |-> NoProject]
CollNoFields == [collection |-> "users", searchFields |-> <<>>, project |-> NoProject]
CollBadField == [collection |-> "users", searchFields |-> <<"$bad">>,
                 project |-> NoProject]

\* A field name the server rejects: the query on that collection fails.
BadFields == {"$bad"}

\* The document a projection leaves (options.projection)
Projected(doc, project) ==
    IF project.on THEN [f \in DOMAIN doc \cap project.fields |-> doc[f]] ELSE doc

\* { $or: searchFields.map(field => ({ [field]: searchValue })) }: the query
\* compares with the string searchValue, so a number never equals it.
Matches(doc, searchFields, searchValue) ==
    \E i \in 1..Len(searchFields) : Get(doc, searchFields[i]) = Str(searchValue)

NullDoc == Undefined

\* collection.findOne(query, options): the first matching document or null
FindOne(docs, coll, searchValue) ==
    IF \E i \in 1..Len(docs) : Matches(docs[i], coll.searchFields, searchValue)
    THEN LET i == CHOOSE i \in 1..Len(docs) :
                      /\ Matches(docs[i], coll.searchFields, searchValue)
                      /\ \A j \in 1..(i - 1) :
                            ~Matches(docs[j], coll.searchFields, searchValue)
         IN Projected(docs[i], coll.project)
    ELSE NullDoc

\* mongoDatabase.js:191-192: databases.length > 0 ? databases : [null]
\* (null is the empty name)
DatabasesToSearch(databases) == IF Len(databases) > 0 THEN databases ELSE <<"">>

\* mongoDatabase.js:196: dbName ? client.db(dbName) : client.db()
DbOf(dbName) == IF dbName # "" THEN dbName ELSE DefaultDb

\* mongoDatabase.js:232: dbName ? `${dbName}` : "default"
DbDisplay(dbName) == IF dbName # "" THEN dbName ELSE "default"

\* mongoDatabase.js:233: `MongoDB.${dbDisplay}`
SourceOf(dbName, collectionName) == <<"MongoDB", DbDisplay(dbName)>>

\* mongoDatabase.js:205-211: an entry the loop does not skip
ValidCollection(c) == c.collection # "" /\ Len(c.searchFields) > 0

\* The loops nested the other way round (collections outside, databases
\* inside): the first position at or after (di, ci) that is not skipped.
RECURSIVE CollectionMajorFrom(_, _, _, _)
CollectionMajorFrom(dbs, colls, di, ci) ==
    IF ci > Len(colls) THEN <<0, 0>>
    ELSE IF di > Len(dbs) THEN CollectionMajorFrom(dbs, colls, 1, ci + 1)
    ELSE IF ValidCollection(colls[ci]) THEN <<di, ci>>
    ELSE CollectionMajorFrom(dbs, colls, 1, ci + 1)

\* An Advance for the loops nested the other way round: called with (1, 1)
\* at the start and with (di, ci + 1) after the query at (di, ci).
AdvanceCollectionMajor(dbs, colls, di, ci) ==
    IF <<di, ci>> = <<1, 1>> THEN CollectionMajorFrom(dbs, colls, 1, 1)
    ELSE CollectionMajorFrom(dbs, colls, di + 1, ci - 1)

\* mongoDatabase.js:195-198: the two nested loops: the first position at or
\* after (di, ci), in the order the loops visit, that is not skipped;
\* <<0, 0>> when the loops end.
RECURSIVE Advance(_, _, _, _)
Advance(dbs, colls, di, ci) ==
    IF di > Len(dbs) THEN <<0, 0>>
    ELSE IF ci > Len(colls) THEN Advance(dbs, colls, di + 1, 1)
    ELSE IF ValidCollection(colls[ci]) THEN <<di, ci>>
    ELSE Advance(dbs, colls, di, ci + 1)

----------------------------------------------------------------------------
(* Remote Search Client: connectMongo, disconnectMongo, searchMongoDatabase *)
(* (mongoDatabase.js:59-259).  A call is a task; it advances at each        *)
(* network answer (ping, close, connect, findOne) and runs to its next      *)
(* await in one step.                                                       *)

MaxTasks == 1
MaxClients == 2

TaskIds == 1..MaxTasks

\* values, vi: the candidates of the searchWithMultipleValues call the search
\* belongs to and the position of the one being looked up.  before: the
\* Result Cache as it was when the reconnect command began (an observation
\* for the properties, the command does not read it).
\* The locals of a provideHover call that is waiting for a remote search
\* (hoverProvider.js:134-164): the word under the pointer, whether it is a
\* variable name, the values the variable resolved to (none when it resolved to
\* nothing), the position reached (0: the literal search, k: the search of the
\* k-th value), lookupTime, and the time measured so far by the
\* searchInDatabases call in progress.  spent is an observation for the
\* properties: the cost of every step taken since the call began.
NoHover == [word |-> "", isVariable |-> FALSE, isObject |-> FALSE, values |-> <<>>,
            i |-> 0, lookupTime |-> 0, cur |-> 0, spent |-> 0]

IdleTask == [pc |-> "idle", token |-> "", origin |-> "", client |-> 0,
             dbs |-> <<>>, colls |-> <<>>, di |-> 0, ci |-> 0, log |-> <<>>,
             values |-> <<>>, vi |-> 0, before |-> <<>>, hover |-> NoHover]

\* What a searchMongoDatabase call returned: { document, source } or null
\* (found false), with the queries it made (log: their positions in the
\* configured lists).  atOnce: the call has returned before it had a client
\* to probe or to connect (lines 174-176, 61-65 and 179-181).
SearchReturn(task, document, source) ==
    [op |-> "search", token |-> task.token, found |-> document # NullDoc,
     result |-> document, source |-> source, local |-> FALSE, cacheRead |-> FALSE,
     remote |-> TRUE, log |-> task.log, rejected |-> FALSE,
     atOnce |-> task.client = 0]

\* The call ends with an exception no catch clause of connectMongo or
\* searchMongoDatabase has taken: its promise is rejected.
Rejected(task) == [SearchReturn(task, NullDoc, NoSource) EXCEPT !.rejected = TRUE]

\* A connectMongo without its outer try statement (lines 60, 89-95).
CatchOfWithoutOuterTry(site) ==
    IF site = "ping" THEN "reconnect"
    ELSE IF site = "close" THEN "ignore"
    ELSE IF site = "findOne" THEN "nextCollection"
    ELSE ""

\* A searchMongoDatabase without the try statement around the query of one
\* collection (lines 213, 243-248).
CatchOfWithoutCollectionTry(site) ==
    IF site = "ping" THEN "reconnect"
    ELSE IF site = "close" THEN "ignore"
    ELSE IF site = "connect" THEN "connectFailed"
    ELSE ""

\* The catch clause that takes an exception thrown at an await of
\* connectMongo or searchMongoDatabase: the innermost try statement around
\* it (mongoDatabase.js:74, 79, 89, 243); "" when there is none.
CatchOf(site) ==
    IF site = "ping" THEN "reconnect"
    ELSE IF site = "close" THEN "ignore"
    ELSE IF site = "connect" THEN "connectFailed"
    ELSE IF site = "findOne" THEN "nextCollection"
    ELSE ""

\* No call has returned at once.
NoReturn == [op |-> "none"]

\* Whether the cache holds an entry for key that has not expired.
CachedNow(key) ==
    /\ CachePos(mongoCache, key) # 0
    /\ now - mongoCache[CachePos(mongoCache, key)].timestamp <= GetCacheTTL

\* What held when a call that returned at once was made (observations for
\* the properties, the call itself reads none of them): whether the Result
\* Cache held an unexpired entry for the token, whether the local source was
\* enabled and whether the Local Index held the token as a key of its own.
Observe(key) ==
    [cached |-> CachedNow(key), jsonEnabled |-> enableJsonDatabase,
     inIndex |-> key \in DOMAIN database]

HasFreeTask(ts) == \E t \in DOMAIN ts : ts[t].pc = "idle"
FreeTask(ts) == CHOOSE t \in DOMAIN ts : ts[t].pc = "idle" /\ \A u \in 1..(t - 1) : ts[u].pc # "idle"

\* The state a call reads and writes before its first await:
\* rs = [mongoClient, clients, tasks, returned]; returned is what the call
\* returned when it returned without waiting.
\* A call can be made when a task slot and a client number are left for it.
CanBegin(rs) ==
    \/ ~enableMongoDB
    \/ mongodbUrl = ""
    \/ /\ HasFreeTask(rs.tasks)
       /\ rs.mongoClient # 0 \/ Len(rs.clients) < MaxClients

\* A searchMongoDatabase that does not look at hoverLookup.enableMongoDB
\* (without lines 174-176).
BeginSearchIgnoringSwitch(rs, token, origin) ==
    LET call == [IdleTask EXCEPT !.token = token, !.origin = origin] IN
    IF mongodbUrl = "" \/ ~HasFreeTask(rs.tasks)
       \/ (rs.mongoClient = 0 /\ Len(rs.clients) >= MaxClients)
    THEN [rs EXCEPT !.returned = SearchReturn(call, NullDoc, NoSource)]
    ELSE IF rs.mongoClient # 0
    THEN [rs EXCEPT !.tasks[FreeTask(rs.tasks)] =
                        [call EXCEPT !.pc = "ping", !.client = rs.mongoClient]]
    ELSE [rs EXCEPT !.clients = Append(@, "new"),
                    !.mongoClient = Len(rs.clients) + 1,
                    !.tasks[FreeTask(rs.tasks)] =
                        [call EXCEPT !.pc = "connect", !.client = Len(rs.clients) + 1]]

\* searchMongoDatabase(token) up to its first await: lines 172-178 and, in
\* connectMongo, lines 59-71 (ping the existing client) or 85-86 (create one
\* and connect it).
BeginSearch(rs, token, origin) ==
    LET call == [IdleTask EXCEPT !.token = token, !.origin = origin] IN
    IF ~enableMongoDB \/ mongodbUrl = ""
    THEN [rs EXCEPT !.returned = SearchReturn(call, NullDoc, NoSource)]
    ELSE IF rs.mongoClient # 0
    THEN [rs EXCEPT !.tasks[FreeTask(rs.tasks)] =
                        [call EXCEPT !.pc = "ping", !.client = rs.mongoClient]]
    ELSE [rs EXCEPT !.clients = Append(@, "new"),
                    !.mongoClient = Len(rs.clients) + 1,
                    !.tasks[FreeTask(rs.tasks)] =
                        [call EXCEPT !.pc = "connect", !.client = Len(rs.clients) + 1]]

\* The answers the network can give.  A client that is not connected (being
\* connected by another call, or closed) may or may not serve a request,
\* depending on the driver.
PingOutcomes(c) ==
    IF ~serverUp THEN {FALSE}
    ELSE IF clients[c] = "open" THEN {TRUE}
    ELSE {TRUE, FALSE}

ConnectOutcomes(c) ==
    IF ~serverUp THEN {FALSE}
    ELSE IF clients[c] = "closed" THEN {TRUE, FALSE}
    ELSE {TRUE}

QueryOutcomes(task) ==
    IF ~serverUp THEN {"throw"}
    ELSE IF \E i \in 1..Len(task.colls[task.ci].searchFields) :
                task.colls[task.ci].searchFields[i] \in BadFields
    THEN {"throw"}
    ELSE IF clients[task.client] = "closed" THEN {"throw", "answer"}
    ELSE {"answer"}

\* The continuation of searchInDatabases after its await (hoverProvider.js:
\* 83-94): what the asynchronous resolution returns.
AsyncReturn(ret) == [ret EXCEPT !.op = "async"]

\* What searchWithMultipleValues returns (hoverProvider.js:106-113): the
\* result of the candidate at position i with matchedValue, or null after
\* the last candidate.
MultiReturn(ret, values, i) ==
    [ret EXCEPT !.op = "multi"]
        @@ [values |-> values, attempts |-> i,
            matchedValue |-> IF ret.found THEN values[i] ELSE Null]

\* What the command hoverLookup.reconnectMongoDB ends with
\* (commands.js:145-160): connectMongo has returned a client, or null, or
\* has thrown.
ReconnectReturn(task, client, rejected) ==
    [op |-> "reconnect", client |-> client, rejected |-> rejected,
     message |-> IF rejected THEN "Failed to reconnect"
                 ELSE IF client # 0 THEN "Successfully reconnected"
                 ELSE "MongoDB URL not configured",
     before |-> task.before]

\* The time a sub-lookup takes (the difference of two performance.now()
\* readings), one abstract cost for each kind of step.
Cost(step) ==
    IF step = "local" THEN 1 ELSE IF step = "cache" THEN 2 ELSE 4

\* What provideHover ends with (hoverProvider.js:236-284): a hover whose header
\* shows lookupTime, or null.  The search at position h.i has just ended and
\* has measured time (hoverProvider.js:91); on a match lookupTime is set from it
\* (line 171 for the literal) or increased by it (lines 215 and 229).
HoverReturn(h, found, result, source, time) ==
    [op |-> "provide", word |-> h.word, isVariable |-> h.isVariable,
     values |-> h.values, position |-> h.i, found |-> found, result |-> result,
     source |-> source,
     lookupTime |-> IF ~found THEN 0
                    ELSE IF h.i = 0 THEN time ELSE h.lookupTime + time,
     spent |-> h.spent + time]

\* A call returns: its slot is free again, and the caller goes on.  The
\* caller searchWithMultipleValues returns the match, or goes on with its
\* loop (pc "resume") when the candidate has resolved to nothing.
Finish(t, ret) ==
    IF tasks[t].origin = "reconnect"
    THEN /\ tasks' = [tasks EXCEPT ![t] = IdleTask]
         /\ last' = ReconnectReturn(tasks[t], 0, ret.rejected)
    ELSE IF tasks[t].origin = "multi"
    THEN IF ret.found
         THEN /\ tasks' = [tasks EXCEPT ![t] = IdleTask]
              /\ last' = MultiReturn(ret, tasks[t].values, tasks[t].vi)
         ELSE /\ tasks' = [tasks EXCEPT ![t] =
                              [IdleTask EXCEPT !.pc = "resume", !.origin = "multi",
                                               !.values = tasks[t].values,
                                               !.vi = tasks[t].vi]]
              /\ last' = NoCall
    ELSE IF tasks[t].origin = "provide"
    THEN LET h == tasks[t].hover IN
         IF ret.rejected
         THEN /\ tasks' = [tasks EXCEPT ![t] = IdleTask]
              /\ last' = HoverReturn(h, FALSE, Null, NoSource, h.cur + Cost("remote"))
         ELSE IF ret.found
         THEN /\ tasks' = [tasks EXCEPT ![t] = IdleTask]
              /\ last' = HoverReturn(h, TRUE, ret.result, ret.source,
                                     h.cur + Cost("remote"))
         ELSE /\ tasks' = [tasks EXCEPT ![t] =
                              [IdleTask EXCEPT !.pc = "resume", !.origin = "provide",
                                  !.hover = [h EXCEPT !.spent = @ + h.cur + Cost("remote"),
                                                      !.cur = 0, !.i = @ + 1]]]
              /\ last' = NoCall
    ELSE /\ tasks' = [tasks EXCEPT ![t] = IdleTask]
         /\ last' = IF tasks[t].origin = "hover" THEN AsyncReturn(ret) ELSE ret

\* mongoDatabase.js:179-229: from the value connectMongo returned to the
\* first findOne.
AfterConnect(t, client) ==
    LET colls == mongodbCollections
        dbs == DatabasesToSearch(mongodbDatabases)
        pos == Advance(dbs, colls, 1, 1)
    IN IF tasks[t].origin = "reconnect"
       THEN /\ tasks' = [tasks EXCEPT ![t] = IdleTask]
            /\ last' = ReconnectReturn(tasks[t], client, FALSE)
       ELSE IF client = 0 \/ Len(colls) = 0 \/ pos = <<0, 0>>
       THEN Finish(t, SearchReturn(tasks[t], NullDoc, NoSource))
       ELSE /\ tasks' = [tasks EXCEPT ![t] =
                            [@ EXCEPT !.pc = "query", !.client = client, !.dbs = dbs,
                                      !.colls = colls, !.di = pos[1], !.ci = pos[2],
                                      !.log = <<pos>>]]
            /\ last' = NoCall

\* mongoDatabase.js:71-83: the ping answers.
PingDone(t) ==
    /\ tasks[t].pc = "ping"
    /\ \E ok \in PingOutcomes(tasks[t].client) :
         IF ok
         THEN /\ AfterConnect(t, mongoClient)
              /\ UNCHANGED <<mongoClient, clients>>
         ELSE IF CatchOf("ping") = ""
         THEN /\ Finish(t, Rejected(tasks[t]))
              /\ UNCHANGED <<mongoClient, clients>>
         ELSE IF mongoClient = 0
         THEN \* mongoClient.close() throws on null, ignored; lines 81-86
              /\ CatchOf("close") # ""
              /\ Len(clients) < MaxClients
              /\ clients' = Append(clients, "new")
              /\ mongoClient' = Len(clients) + 1
              /\ tasks' = [tasks EXCEPT ![t].pc = "connect", ![t].client = Len(clients) + 1]
              /\ last' = NoCall
         ELSE \* await mongoClient.close(), line 77
              /\ clients' = [clients EXCEPT ![mongoClient] = "closed"]
              /\ tasks' = [tasks EXCEPT ![t].pc = "close", ![t].client = mongoClient]
              /\ UNCHANGED mongoClient /\ last' = NoCall
    /\ UNCHANGED <<localVars, enableJsonDatabase, enableMongoDB, configVars,
                   cacheConfigVars, serverUp, mongoCache, now, disconnecting>>

\* mongoDatabase.js:77-86: close() has answered (its failure is ignored).
CloseDone(t) ==
    /\ tasks[t].pc = "close"
    /\ Len(clients) < MaxClients
    /\ clients' = Append(clients, "new")
    /\ mongoClient' = Len(clients) + 1
    /\ tasks' = [tasks EXCEPT ![t].pc = "connect", ![t].client = Len(clients) + 1]
    /\ UNCHANGED <<localVars, enableJsonDatabase, enableMongoDB, configVars,
                   cacheConfigVars, serverUp, mongoCache, now, disconnecting>> /\ last' = NoCall

\* mongoDatabase.js:86-95: connect() has answered.
ConnectDone(t) ==
    /\ tasks[t].pc = "connect"
    /\ \E ok \in ConnectOutcomes(tasks[t].client) :
         IF ok
         THEN /\ clients' = [clients EXCEPT ![tasks[t].client] =
                                IF @ = "new" THEN "open" ELSE @]
              /\ AfterConnect(t, mongoClient)
              /\ UNCHANGED mongoClient
         ELSE IF CatchOf("connect") = ""
         THEN /\ Finish(t, Rejected(tasks[t]))
              /\ UNCHANGED <<mongoClient, clients>>
         ELSE /\ mongoClient' = 0
              /\ Finish(t, SearchReturn(tasks[t], NullDoc, NoSource))
              /\ UNCHANGED clients
    /\ UNCHANGED <<localVars, enableJsonDatabase, enableMongoDB, configVars,
                   cacheConfigVars, serverUp, mongoCache, now, disconnecting>>

\* mongoDatabase.js:229-249: findOne has answered.
QueryDone(t) ==
    /\ tasks[t].pc = "query"
    /\ \E o \in QueryOutcomes(tasks[t]) :
         LET task == tasks[t]
             coll == task.colls[task.ci]
             dbName == task.dbs[task.di]
             document == IF o = "answer"
                         THEN FindOne(store[<<DbOf(dbName), coll.collection>>], coll,
                                      task.token)
                         ELSE NullDoc
             pos == Advance(task.dbs, task.colls, task.di, task.ci + 1)
         IN IF o = "throw" /\ CatchOf("findOne") = ""
            THEN /\ Finish(t, Rejected(task))
                 /\ UNCHANGED mongoCache
            ELSE IF document # NullDoc
            THEN /\ mongoCache' = AddToMongoCache(mongoCache, task.token, document,
                                                  SourceOf(dbName, coll.collection), now)
                 /\ Finish(t, SearchReturn(task, document,
                                           SourceOf(dbName, coll.collection)))
            ELSE IF pos = <<0, 0>>
            THEN /\ Finish(t, SearchReturn(task, NullDoc, NoSource))
                 /\ UNCHANGED mongoCache
            ELSE /\ tasks' = [tasks EXCEPT ![t] =
                                 [task EXCEPT !.di = pos[1], !.ci = pos[2],
                                              !.log = Append(@, pos)]]
                 /\ UNCHANGED mongoCache /\ last' = NoCall
    /\ UNCHANGED <<localVars, enableJsonDatabase, enableMongoDB, configVars,
                   cacheConfigVars, serverUp, mongoClient, clients, now, disconnecting>>

\* disconnectMongo() up to its await (mongoDatabase.js:101-103)
DisconnectMongo ==
    /\ mongoClient # 0
    /\ disconnecting = 0
    /\ disconnecting' = mongoClient
    /\ clients' = [clients EXCEPT ![mongoClient] = "closed"]
    /\ UNCHANGED <<localVars, enableJsonDatabase, enableMongoDB, configVars,
                   cacheConfigVars, serverUp, mongoClient, mongoCache, now, tasks>> /\ last' = NoCall

\* A disconnectMongo() that does not empty the handle (without line 104).
DisconnectDoneKeepingHandle ==
    /\ disconnecting # 0
    /\ disconnecting' = 0
    /\ UNCHANGED <<localVars, enableJsonDatabase, enableMongoDB, configVars,
                   cacheConfigVars, serverUp, mongoClient, clients, mongoCache, now,
                   tasks>> /\ last' = NoCall

\* disconnectMongo() after its await (mongoDatabase.js:104)
DisconnectDone ==
    /\ disconnecting # 0
    /\ disconnecting' = 0
    /\ mongoClient' = 0
    /\ UNCHANGED <<localVars, enableJsonDatabase, enableMongoDB, configVars,
                   cacheConfigVars, serverUp, clients, mongoCache, now, tasks>> /\ last' = NoCall

\* connectMongo() called by the reconnect command, up to its await
\* (mongoDatabase.js:59-86) when no client is left: null without a URL, a
\* new client that connects otherwise.
ReconnectConnect(t, call) ==
    IF mongodbUrl = ""
    THEN /\ tasks' = [tasks EXCEPT ![t] = IdleTask]
         /\ last' = ReconnectReturn(call, 0, FALSE)
         /\ UNCHANGED clients
         /\ mongoClient' = 0
    ELSE /\ Len(clients) < MaxClients
         /\ clients' = Append(clients, "new")
         /\ mongoClient' = Len(clients) + 1
         /\ tasks' = [tasks EXCEPT ![t] =
                          [call EXCEPT !.pc = "connect", !.client = Len(clients) + 1]]
         /\ last' = NoCall

\* hoverLookup.reconnectMongoDB (commands.js:139-161) up to its first await:
\* disconnectMongo() closes the client there is, or connectMongo() begins.
ReconnectMongoDB ==
    /\ HasFreeTask(tasks)
    /\ LET t == FreeTask(tasks)
           call == [IdleTask EXCEPT !.origin = "reconnect", !.before = mongoCache]
       IN IF mongoClient # 0
          THEN /\ clients' = [clients EXCEPT ![mongoClient] = "closed"]
               /\ tasks' = [tasks EXCEPT ![t] =
                                [call EXCEPT !.pc = "disconnect", !.client = mongoClient]]
               /\ last' = NoCall
               /\ UNCHANGED mongoClient
          ELSE ReconnectConnect(t, call)
    /\ UNCHANGED <<localVars, enableJsonDatabase, enableMongoDB, configVars,
                   cacheConfigVars, serverUp, mongoCache, now, disconnecting>>

\* The close() of the reconnect command has answered: mongoClient = null
\* (mongoDatabase.js:104), then connectMongo() (commands.js:145).
ReconnectDisconnected(t) ==
    /\ tasks[t].pc = "disconnect"
    /\ ReconnectConnect(t, [tasks[t] EXCEPT !.client = 0])
    /\ UNCHANGED <<localVars, enableJsonDatabase, enableMongoDB, configVars,
                   cacheConfigVars, serverUp, mongoCache, now, disconnecting>>

----------------------------------------------------------------------------
(* Lookup Coordinator: the synchronous path (debugAdapter.js) and the       *)
(* asynchronous path (hoverProvider.js).                                    *)

\* `${cachedResult.source} (cached)` (debugAdapter.js:43)
CachedSource(source) == Append(source, "(cached)")

\* searchSynchronously(searchValue) on the cache `cache`: what it returns
\* (found: a result, null otherwise) and the cache it leaves.
\* A searchSynchronously that removes the cache entry it returns.
SearchSynchronouslyConsuming(searchValue, cache) ==
    LET k == JsString(searchValue)
        result == IF enableJsonDatabase THEN DbRead(database, k) ELSE Null
        source == IF enableJsonDatabase THEN GetDatabaseSource(databaseSources, k)
                  ELSE NoSource
        c == GetFromMongoCache(cache, k, now)
    IN IF Truthy(result)
       THEN [found |-> TRUE, result |-> result, source |-> source, local |-> TRUE,
             cacheRead |-> FALSE, cache |-> cache]
       ELSE IF c.hit
       THEN [found |-> TRUE, result |-> c.document, source |-> CachedSource(c.source),
             local |-> FALSE, cacheRead |-> TRUE, cache |-> CacheDelete(c.cache, k)]
       ELSE [found |-> FALSE, result |-> Null, source |-> source, local |-> FALSE,
             cacheRead |-> TRUE, cache |-> c.cache]

SearchSynchronously(searchValue, cache) ==
    LET k == JsString(searchValue)
        result == IF enableJsonDatabase THEN DbRead(database, k) ELSE Null
        source == IF enableJsonDatabase THEN GetDatabaseSource(databaseSources, k)
                  ELSE NoSource
        c == GetFromMongoCache(cache, k, now)
    IN IF Truthy(result)
       THEN [found |-> TRUE, result |-> result, source |-> source, local |-> TRUE,
             cacheRead |-> FALSE, cache |-> cache]
       ELSE IF c.hit
       THEN [found |-> TRUE, result |-> c.document, source |-> CachedSource(c.source),
             local |-> FALSE, cacheRead |-> TRUE, cache |-> c.cache]
       ELSE [found |-> FALSE, result |-> Null, source |-> source, local |-> FALSE,
             cacheRead |-> TRUE, cache |-> c.cache]

\* A searchWithMultipleValuesSync that goes through all the candidates and
\* returns the last one that resolves.
SearchWithMultipleValuesSyncLastMatch(values, i, cache) ==
    LET hits == {j \in i..Len(values) : SearchSynchronously(values[j], cache).found} IN
    IF hits = {}
    THEN [found |-> FALSE, result |-> Null, source |-> NoSource, local |-> FALSE,
          cacheRead |-> Len(values) > 0, cache |-> cache, matchedValue |-> Null,
          attempts |-> Len(values)]
    ELSE LET j == CHOOSE h \in hits : \A g \in hits : g <= h IN
         SearchSynchronously(values[j], cache)
             @@ [matchedValue |-> values[j], attempts |-> j]

\* searchWithMultipleValuesSync(values), from position i on: the first
\* value that resolves; attempts is the number of values tried.
RECURSIVE SearchWithMultipleValuesSync(_, _, _)
SearchWithMultipleValuesSync(values, i, cache) ==
    IF i > Len(values)
    THEN [found |-> FALSE, result |-> Null, source |-> NoSource, local |-> FALSE,
          cacheRead |-> Len(values) > 0, cache |-> cache, matchedValue |-> Null,
          attempts |-> Len(values)]
    ELSE LET r == SearchSynchronously(values[i], cache) IN
         IF r.found
         THEN r @@ [matchedValue |-> values[i], attempts |-> i]
         ELSE SearchWithMultipleValuesSync(values, i + 1, r.cache)

\* debugAdapter.js:141-147: one background searchMongoDatabase per value
RECURSIVE BeginAll(_, _, _)
BeginAll(rs, values, i) ==
    IF i > Len(values) THEN rs
    ELSE BeginAll(BeginSearch(rs, JsString(values[i]), "bg"), values, i + 1)

RECURSIVE CanBeginAll(_, _, _)
CanBeginAll(rs, values, i) ==
    IF i > Len(values) THEN TRUE
    ELSE IF CanBegin(rs)
    THEN CanBeginAll(BeginSearch(rs, JsString(values[i]), "bg"), values, i + 1)
    ELSE FALSE

RemoteState == [mongoClient |-> mongoClient, clients |-> clients, tasks |-> tasks,
                returned |-> NoReturn]

\* A message of the debug adapter: hasBody and hasResult say whether
\* message.body and message.body.result are defined, result is the text of
\* body.result as the list of its parts.
\* A successful evaluate response whose result is the text of a value: of
\* one primitive value, or of an object whose searchable values are the list
\* values (variablesReference is not 0 for an object).
EvaluateResponse(values, isObject) ==
    [type |-> "response", command |-> "evaluate", success |-> TRUE,
     hasBody |-> TRUE, hasResult |-> TRUE,
     result |-> <<[text |-> values, isObject |-> isObject]>>,
     variablesReference |-> IF isObject THEN 7 ELSE 0]

\* Messages onDidSendMessage passes over (debugAdapter.js:92-104): an event,
\* the response to another command, a failed evaluate, an evaluate response
\* without body and one whose body has no result.
OtherMessages ==
    {[EvaluateResponse(<<Str("u1")>>, FALSE) EXCEPT !.type = "event"],
     [EvaluateResponse(<<Str("u1")>>, FALSE) EXCEPT !.command = "variables"],
     [EvaluateResponse(<<Str("u1")>>, FALSE) EXCEPT !.success = FALSE],
     [EvaluateResponse(<<Str("u1")>>, FALSE) EXCEPT
         !.hasBody = FALSE, !.hasResult = FALSE, !.result = <<>>],
     [EvaluateResponse(<<Str("u1")>>, TRUE) EXCEPT
         !.hasResult = FALSE, !.result = <<>>]}

\* JSON.stringify(dbResult, null, 2) inside a template literal: the text of
\* the record, "undefined" for a function.
JsonStringify(x) ==
    IF "t" \in DOMAIN x /\ x.t = "function" THEN <<"undefined">> ELSE <<x>>

\* formatTooltipHeaderPlainText({ lookupTimeMs, source, matchedValue }): the
\* line "Matched using" is there when matchedValue is neither undefined nor
\* null.
FormatTooltipHeaderPlainText(lookupTimeMs, source, matchedValue) ==
    <<"Database Lookup", lookupTimeMs, "Source", source>>
        \o (IF matchedValue # Undefined /\ matchedValue # Null
            THEN <<"Matched using", matchedValue>> ELSE <<>>)

\* debugAdapter.js:176-207: the message onDidSendMessage leaves when the
\* lookup has returned r: with dbResult the result becomes
\* `${result}${header}${dbInfo}` and variablesReference 0.
Enrich(message, r, isObject) ==
    IF Truthy(r.result)
    THEN LET lookupTime == (IF enableJsonDatabase THEN Cost("local") ELSE 0)
                              + (IF r.cacheRead THEN Cost("cache") ELSE 0)
             headerMatchedValue == IF isObject THEN r.matchedValue ELSE Undefined
         IN [message EXCEPT
                !.result = @ \o FormatTooltipHeaderPlainText(
                                    lookupTime, r.source, headerMatchedValue)
                             \o JsonStringify(r.result),
                !.variablesReference = 0]
    ELSE message

\* onDidSendMessage(message) for a successful evaluate response whose result
\* is the primitive lookupValue (values = <<lookupValue>>, isObject false) or
\* an object with the searchable values `values` (debugAdapter.js:91-209).
OnDidSendMessage(values, isObject) ==
    LET r == IF isObject
             THEN SearchWithMultipleValuesSync(values, 1, mongoCache)
             ELSE SearchSynchronously(values[1], mongoCache)
                      @@ [matchedValue |-> values[1], attempts |-> 1]
        rs == IF r.found THEN RemoteState ELSE BeginAll(RemoteState, values, 1)
    IN /\ Len(values) > 0
       /\ IF r.found THEN TRUE ELSE CanBeginAll(RemoteState, values, 1)
       /\ mongoCache' = r.cache
       /\ mongoClient' = rs.mongoClient
       /\ clients' = rs.clients
       /\ tasks' = rs.tasks
       /\ last' = [op |-> "sync", token |-> IF r.found THEN JsString(r.matchedValue)
                                            ELSE JsString(values[1]),
                   values |-> values, isObject |-> isObject,
                   matchedValue |-> IF r.found THEN r.matchedValue ELSE Null,
                   attempts |-> r.attempts,
                   found |-> r.found, result |-> r.result, source |-> r.source,
                   local |-> r.local, cacheRead |-> r.cacheRead, remote |-> ~r.found,
                   log |-> <<>>, purged |-> r.cache # mongoCache,
                   obs |-> Observe(IF r.found THEN JsString(r.matchedValue)
                                   ELSE JsString(values[1])),
                   message |-> EvaluateResponse(values, isObject),
                   sent |-> Enrich(EvaluateResponse(values, isObject), r, isObject)]
       /\ UNCHANGED <<localVars, enableJsonDatabase, enableMongoDB, configVars,
                      cacheConfigVars, serverUp, now, disconnecting>>

\* onDidSendMessage(message) for a message that does not pass the tests of
\* lines 92-104: the handler returns.
OnDidSendMessageOther(message) ==
    /\ ~(/\ message.type = "response"
         /\ message.command = "evaluate"
         /\ message.success
         /\ message.hasBody
         /\ message.hasResult)
    /\ last' = [op |-> "message", message |-> message, sent |-> message]
    /\ UNCHANGED <<localVars, enableJsonDatabase, remoteVars>>

\* A searchInDatabases that reads the Result Cache after a local miss and
\* searches the server only when the cache has no entry.
SearchInDatabasesCacheFirst(searchValue) ==
    LET k == JsString(searchValue)
        result == IF enableJsonDatabase THEN DbRead(database, k) ELSE Null
        source == IF enableJsonDatabase THEN GetDatabaseSource(databaseSources, k)
                  ELSE NoSource
        c == GetFromMongoCache(mongoCache, k, now)
        rs == BeginSearch(RemoteState, k, "hover")
    IN IF Truthy(result)
       THEN /\ last' = [op |-> "async", token |-> k, found |-> TRUE, result |-> result,
                        source |-> source, local |-> TRUE, cacheRead |-> FALSE,
                        remote |-> FALSE, log |-> <<>>, obs |-> Observe(k)]
            /\ UNCHANGED <<localVars, enableJsonDatabase, remoteVars>>
       ELSE IF c.hit
       THEN /\ last' = [op |-> "async", token |-> k, found |-> TRUE,
                        result |-> c.document, source |-> CachedSource(c.source),
                        local |-> FALSE, cacheRead |-> TRUE, remote |-> FALSE,
                        log |-> <<>>, obs |-> Observe(k)]
            /\ UNCHANGED <<localVars, enableJsonDatabase, remoteVars>>
       ELSE /\ CanBegin(RemoteState)
            /\ mongoCache' = c.cache
            /\ mongoClient' = rs.mongoClient
            /\ clients' = rs.clients
            /\ tasks' = rs.tasks
            /\ last' = IF rs.returned # NoReturn
                       THEN AsyncReturn(rs.returned) @@ [obs |-> Observe(k)]
                       ELSE NoCall
            /\ UNCHANGED <<localVars, enableJsonDatabase, enableMongoDB, configVars,
                           cacheConfigVars, serverUp, now, disconnecting>>

\* searchInDatabases(searchValue) up to its await (hoverProvider.js:65-82);
\* when the Local Index answers, or searchMongoDatabase returns at once, the
\* call returns in the same step.
SearchInDatabases(searchValue) ==
    LET k == JsString(searchValue)
        result == IF enableJsonDatabase THEN DbRead(database, k) ELSE Null
        source == IF enableJsonDatabase THEN GetDatabaseSource(databaseSources, k)
                  ELSE NoSource
        rs == BeginSearch(RemoteState, k, "hover")
    IN IF Truthy(result)
       THEN /\ last' = [op |-> "async", token |-> k, found |-> TRUE, result |-> result,
                        source |-> source, local |-> TRUE, cacheRead |-> FALSE,
                        remote |-> FALSE, log |-> <<>>, obs |-> Observe(k)]
            /\ UNCHANGED <<localVars, enableJsonDatabase, remoteVars>>
       ELSE /\ CanBegin(RemoteState)
            /\ mongoClient' = rs.mongoClient
            /\ clients' = rs.clients
            /\ tasks' = rs.tasks
            /\ last' = IF rs.returned # NoReturn
                       THEN AsyncReturn(rs.returned) @@ [obs |-> Observe(k)]
                       ELSE NoCall
            /\ UNCHANGED <<localVars, enableJsonDatabase, enableMongoDB, configVars,
                           cacheConfigVars, serverUp, mongoCache, now, disconnecting>>

\* searchWithMultipleValues(values) from candidate i on, up to the first
\* await that waits for the network (hoverProvider.js:103-114): candidates
\* the Local Index does not hold and for which searchMongoDatabase returns
\* at once are passed over; rs.returned is what the call returns when it
\* returns in this step.
\* The call cannot be made: no task slot or client number is left for it.
OutOfSlots == [op |-> "blocked"]

RECURSIVE SearchWithMultipleValuesFrom(_, _, _)
SearchWithMultipleValuesFrom(rs, values, i) ==
    IF i > Len(values)
    THEN [rs EXCEPT !.returned =
             [op |-> "multi", token |-> "", found |-> FALSE, result |-> Null,
              source |-> NoSource, local |-> FALSE, cacheRead |-> FALSE,
              remote |-> FALSE, log |-> <<>>, values |-> values,
              attempts |-> Len(values), matchedValue |-> Null]]
    ELSE LET k == JsString(values[i])
             result == IF enableJsonDatabase THEN DbRead(database, k) ELSE Null
             source == IF enableJsonDatabase
                       THEN GetDatabaseSource(databaseSources, k)
                       ELSE NoSource
             b == BeginSearch(rs, k, "multi")
         IN IF Truthy(result)
            THEN [rs EXCEPT !.returned =
                     [op |-> "multi", token |-> k, found |-> TRUE, result |-> result,
                      source |-> source, local |-> TRUE, cacheRead |-> FALSE,
                      remote |-> FALSE, log |-> <<>>, values |-> values,
                      attempts |-> i, matchedValue |-> values[i]]]
            ELSE IF ~CanBegin(rs)
            THEN [rs EXCEPT !.returned = OutOfSlots]
            ELSE IF b.returned # NoReturn
            THEN SearchWithMultipleValuesFrom(rs, values, i + 1)
            ELSE [b EXCEPT !.tasks[FreeTask(rs.tasks)].values = values,
                           !.tasks[FreeTask(rs.tasks)].vi = i]

\* A call searchWithMultipleValues(values)
SearchWithMultipleValues(values) ==
    LET r == SearchWithMultipleValuesFrom(RemoteState, values, 1) IN
    /\ r.returned # OutOfSlots
    /\ mongoClient' = r.mongoClient
    /\ clients' = r.clients
    /\ tasks' = r.tasks
    /\ last' = IF r.returned # NoReturn THEN r.returned ELSE NoCall
    /\ UNCHANGED <<localVars, enableJsonDatabase, enableMongoDB, configVars,
                   cacheConfigVars, serverUp, mongoCache, now, disconnecting>>

\* The loop of searchWithMultipleValues goes on after a candidate that
\* resolved to nothing (hoverProvider.js:104-106).
Resume(t) ==
    LET rs == [RemoteState EXCEPT !.tasks[t] = IdleTask]
        r == SearchWithMultipleValuesFrom(rs, tasks[t].values, tasks[t].vi + 1)
    IN /\ tasks[t].pc = "resume"
       /\ tasks[t].origin = "multi"
       /\ r.returned # OutOfSlots
       /\ mongoClient' = r.mongoClient
       /\ clients' = r.clients
       /\ tasks' = r.tasks
       /\ last' = IF r.returned # NoReturn THEN r.returned ELSE NoCall
       /\ UNCHANGED <<localVars, enableJsonDatabase, enableMongoDB, configVars,
                      cacheConfigVars, serverUp, mongoCache, now, disconnecting>>

\* No searchWithMultipleValues is about to go on with its loop: the
\* continuation of an await runs before any other handler.
NoResume == \A t \in DOMAIN tasks : tasks[t].pc # "resume"

\* provideHover from the search at position h.i on (hoverProvider.js:161-234),
\* up to the next await that does not return at once: the literal search
\* (position 0, line 167), then, for a variable whose literal search found
\* nothing, the searches of its values in turn (lines 211 and 225, with the
\* loop of searchWithMultipleValues, lines 104-112).  Each search is
\* searchInDatabases (lines 65-95): the read of the Local Index when the local
\* source is enabled, then searchMongoDatabase when the read found nothing.
RECURSIVE ProvideHoverFrom(_, _)
ProvideHoverFrom(rs, h) ==
    IF h.i > 0 /\ (~h.isVariable \/ h.i > Len(h.values))
    THEN [rs EXCEPT !.returned = HoverReturn(h, FALSE, Null, NoSource, 0)]
    ELSE LET k == IF h.i = 0 THEN h.word ELSE JsString(h.values[h.i])
             result == IF enableJsonDatabase THEN DbRead(database, k) ELSE Null
             source == IF enableJsonDatabase
                       THEN GetDatabaseSource(databaseSources, k)
                       ELSE NoSource
             local == IF enableJsonDatabase THEN Cost("local") ELSE 0
             b == BeginSearch(rs, k, "provide")
         IN IF Truthy(result)
            THEN [rs EXCEPT !.returned = HoverReturn(h, TRUE, result, source, local)]
            ELSE IF ~CanBegin(rs)
            THEN [rs EXCEPT !.returned = OutOfSlots]
            ELSE IF b.returned # NoReturn
            THEN ProvideHoverFrom(rs, [h EXCEPT !.spent = @ + local + Cost("remote"),
                                                !.i = @ + 1])
            ELSE [b EXCEPT !.tasks[FreeTask(rs.tasks)].hover =
                               [h EXCEPT !.cur = local]]

\* provideHover(document, position) up to its first await that does not return
\* at once.  word is the literal or the identifier under the pointer; values
\* is what getValueFromDebugger or findVariableValue gave for the identifier:
\* the values of an object (extractObjectValues), one primitive, or nothing.
ProvideHover(word, isVariable, isObject, values) ==
    LET h == [NoHover EXCEPT !.word = word, !.isVariable = isVariable,
                             !.isObject = isObject, !.values = values]
        r == ProvideHoverFrom([RemoteState EXCEPT !.returned = NoReturn], h)
    IN /\ r.returned # OutOfSlots
       /\ mongoClient' = r.mongoClient
       /\ clients' = r.clients
       /\ tasks' = r.tasks
       /\ last' = IF r.returned # NoReturn THEN r.returned ELSE NoCall
       /\ UNCHANGED <<localVars, enableJsonDatabase, enableMongoDB, configVars,
                      cacheConfigVars, serverUp, mongoCache, now, disconnecting>>

\* provideHover goes on after a search that found nothing.
ResumeHover(t) ==
    LET rs == [RemoteState EXCEPT !.tasks[t] = IdleTask, !.returned = NoReturn]
        r == ProvideHoverFrom(rs, tasks[t].hover)
    IN /\ tasks[t].pc = "resume"
       /\ tasks[t].origin = "provide"
       /\ r.returned # OutOfSlots
       /\ mongoClient' = r.mongoClient
       /\ clients' = r.clients
       /\ tasks' = r.tasks
       /\ last' = IF r.returned # NoReturn THEN r.returned ELSE NoCall
       /\ UNCHANGED <<localVars, enableJsonDatabase, enableMongoDB, configVars,
                      cacheConfigVars, serverUp, mongoCache, now, disconnecting>>

----------------------------------------------------------------------------
(* Commands, settings and the environment.                                 *)

MaxTicks == 2

\* The clock advances by a minute at a time.
TickMs == MsPerMinute

Tick ==
    /\ now < MaxTicks * TickMs
    /\ now' = now + TickMs
    /\ UNCHANGED <<localVars, enableJsonDatabase, enableMongoDB, configVars,
                   cacheConfigVars, serverUp, mongoCache, connVars>> /\ last' = NoCall

\* clearMongoCache() (mongoDatabase.js:162-165)
ClearMongoCache ==
    /\ mongoCache' = <<>>
    /\ last' = [op |-> "clear"]
    /\ UNCHANGED <<localVars, enableJsonDatabase, enableMongoDB, configVars,
                   cacheConfigVars, serverUp, now, connVars>>

\* hoverLookup.toggleLookupJsonDatabase (commands.js:170-220)
ToggleLookupJsonDatabase ==
    /\ enableJsonDatabase' = ~enableJsonDatabase
    /\ UNCHANGED <<localVars, remoteVars>> /\ last' = NoCall

\* hoverLookup.toggleLookupMongoDB (commands.js:226-281): the setting is
\* written, and disabling goes on to disconnectMongo().
ToggleLookupMongoDB ==
    /\ enableMongoDB' = ~enableMongoDB
    /\ IF enableMongoDB /\ mongoClient # 0 /\ disconnecting = 0
       THEN /\ disconnecting' = mongoClient
            /\ clients' = [clients EXCEPT ![mongoClient] = "closed"]
       ELSE UNCHANGED <<disconnecting, clients>>
    /\ UNCHANGED <<localVars, enableJsonDatabase, configVars, cacheConfigVars,
                   serverUp, mongoClient, mongoCache, now, tasks>> /\ last' = NoCall

\* The setting hoverLookup.mongodbDatabases is changed: the handler of
\* onDidChangeConfiguration (extension.js:107-169) calls disconnectMongo(),
\* which closes the client there is.  handled: the handler has come to its
\* end in this step, there being no client to close.
ConfigChange(databases) ==
    /\ databases # mongodbDatabases
    /\ disconnecting = 0
    /\ mongodbDatabases' = databases
    /\ IF mongoClient # 0
       THEN /\ disconnecting' = mongoClient
            /\ clients' = [clients EXCEPT ![mongoClient] = "closed"]
       ELSE UNCHANGED <<disconnecting, clients>>
    /\ last' = [op |-> "configChange", handled |-> mongoClient = 0]
    /\ UNCHANGED <<localVars, enableJsonDatabase, enableMongoDB, mongodbUrl,
                   mongodbCollections, store, cacheConfigVars, serverUp, mongoClient,
                   mongoCache, now, tasks>>

\* The setting hoverLookup.mongodbUrl is changed: the same handler
\* (extension.js:124-133) calls disconnectMongo().
ConfigChangeUrl(url) ==
    /\ url # mongodbUrl
    /\ disconnecting = 0
    /\ mongodbUrl' = url
    /\ IF mongoClient # 0
       THEN /\ disconnecting' = mongoClient
            /\ clients' = [clients EXCEPT ![mongoClient] = "closed"]
       ELSE UNCHANGED <<disconnecting, clients>>
    /\ last' = [op |-> "configChange", handled |-> mongoClient = 0]
    /\ UNCHANGED <<localVars, enableJsonDatabase, enableMongoDB, mongodbDatabases,
                   mongodbCollections, store, cacheConfigVars, serverUp, mongoClient,
                   mongoCache, now, tasks>>

\* The server stops or starts answering.
ServerFlip ==
    /\ serverUp' = ~serverUp
    /\ UNCHANGED <<localVars, enableJsonDatabase, enableMongoDB, configVars,
                   cacheConfigVars, mongoClient, clients, mongoCache, now, tasks,
                   disconnecting>> /\ last' = NoCall

\* The settings mongodbMaxCacheSize and mongodbCacheTtlMinutes are changed.
CacheSizeChoices == {0, 1, 2}
CacheTtlChoices == {0, 2}

SetCacheConfig(size, ttl) ==
    /\ <<size, ttl>> # <<maxCacheSize, cacheTtlMinutes>>
    /\ maxCacheSize' = size
    /\ cacheTtlMinutes' = ttl
    /\ UNCHANGED <<localVars, enableJsonDatabase, enableMongoDB, configVars, serverUp,
                   mongoCache, now, connVars>> /\ last' = NoCall

\* A direct call addToMongoCache(key, document, source).  read: the key the
\* call before this one has read from the cache, "" when it has read none.
CallAddToMongoCache(key, document, source) ==
    /\ mongoCache' = AddToMongoCache(mongoCache, key, document, source, now)
    /\ last' = [op |-> "add", key |-> key, document |-> document, source |-> source,
                at |-> now, sizeBefore |-> Len(mongoCache),
                read |-> IF last.op = "get" /\ last.hit THEN last.key ELSE ""]
    /\ UNCHANGED <<localVars, enableJsonDatabase, enableMongoDB, configVars,
                   cacheConfigVars, serverUp, now, connVars>>

\* A direct call getFromMongoCache(key).  present, timestamp, ttl: the
\* entry of key and the time-to-live when the call was made; prev: the call
\* before this one.
CallGetFromMongoCache(key) ==
    LET r == GetFromMongoCache(mongoCache, key, now)
        i == CachePos(mongoCache, key)
    IN /\ mongoCache' = r.cache
       /\ last' = [op |-> "get", key |-> key, hit |-> r.hit, document |-> r.document,
                   source |-> r.source, at |-> now, present |-> i # 0,
                   timestamp |-> IF i # 0 THEN mongoCache[i].timestamp ELSE 0,
                   ttl |-> GetCacheTTL, sizeBefore |-> Len(mongoCache),
                   sizeAfter |-> Len(r.cache),
                   prev |-> IF last.op = "add"
                            THEN [op |-> "add", key |-> last.key, at |-> last.at,
                                  document |-> last.document, source |-> last.source]
                            ELSE [op |-> "other"]]
       /\ UNCHANGED <<localVars, enableJsonDatabase, enableMongoDB, configVars,
                      cacheConfigVars, serverUp, now, connVars>>

\* A direct call searchMongoDatabase(searchValue)
SearchMongoDatabase(searchValue) ==
    LET rs == BeginSearch(RemoteState, searchValue, "bg") IN
    /\ CanBegin(RemoteState)
    /\ mongoClient' = rs.mongoClient
    /\ clients' = rs.clients
    /\ tasks' = rs.tasks
    /\ last' = IF rs.returned # NoReturn THEN rs.returned ELSE NoCall
    /\ UNCHANGED <<localVars, enableJsonDatabase, enableMongoDB, configVars,
                   cacheConfigVars, serverUp, mongoCache, now, disconnecting>>

----------------------------------------------------------------------------
(* Initial states and specifications.                                      *)

\* The module state when the modules have been evaluated (database.js:5-10,
\* mongoDatabase.js:5-12), with the default settings.
InitState ==
    /\ database = EmptyMap
    /\ databaseSources = EmptyMap
    /\ idField = <<"id">>
    /\ rawJsonData = NullRaw
    /\ enableJsonDatabase = TRUE
    /\ loadResult = [op |-> "none"]
    /\ databasePaths = <<>>
    /\ fileWatchers = <<>>
    /\ mongoClient = 0
    /\ clients = <<>>
    /\ mongoCache = <<>>
    /\ now = 0
    /\ tasks = [t \in TaskIds |-> IdleTask]
    /\ disconnecting = 0
    /\ last = NoCall

FileSystem(a, b, c) ==
    [p \in Paths |-> IF p = "a/db.json" THEN a ELSE IF p = "b/db.json" THEN b ELSE c]

\* Local Index alone: the remote source switched off, the files on disk
\* one of a few combinations of the example files.
LocalFileSystems ==
    {FileSystem(FileUsers, FileMulti, Missing),
     FileSystem(FileUsers, FileUsers, FileFlat),
     FileSystem(FileNoId, FileMulti, BadJson),
     FileSystem(FileFlat, FileNoId, FileUsers),
     FileSystem(FileMulti, FileNoId, FileEmpty),
     FileSystem(FileUsers, FileFlat, Missing),
     FileSystem(FileCtor, FileMulti, Missing)}

InitLocal ==
    /\ InitState
    /\ fs \in LocalFileSystems
    /\ enableMongoDB = FALSE
    /\ mongodbUrl = ""
    /\ mongodbDatabases = <<>>
    /\ mongodbCollections = <<>>
    /\ maxCacheSize = 0
    /\ cacheTtlMinutes = 0
    /\ store = StoreA
    /\ serverUp = TRUE

LocalValues == {Num("1"), Str("a@b"), Str("constructor"), Str("zz")}

NextLocal ==
    \/ \E paths \in PathLists \cup {<<>>} : LoadLocalDatabase(paths)
    \/ \E f \in IdFieldChoices : ReindexDatabase(f)
    \/ ToggleLookupJsonDatabase
    \/ \E v \in LocalValues : OnDidSendMessage(<<v>>, FALSE)
    \/ \E v \in LocalValues : SearchInDatabases(v)

SpecLocal == InitLocal /\ [][NextLocal]_vars

MongoUrl == "mongodb://localhost:27017"

\* Remote Search Client alone: direct calls of searchMongoDatabase under a
\* few configurations and two servers; the network answers as it likes.
SearchConfigs ==
    {[databases |-> <<"db2", "db1">>,
      collections |-> <<CollProducts, CollNoName, CollUsers>>, store |-> StoreA],
     [databases |-> <<"db1", "db2">>, collections |-> <<CollUsers, CollProducts>>,
      store |-> StoreB],
     [databases |-> <<>>, collections |-> <<CollBadField, CollProducts, CollUsers>>,
      store |-> StoreA],
     [databases |-> <<"db1">>, collections |-> <<CollNoFields>>, store |-> StoreA],
     [databases |-> <<"db2", "db1">>, collections |-> <<>>, store |-> StoreB]}

InitSearch ==
    /\ InitState
    /\ fs = FileSystem(FileUsers, FileMulti, Missing)
    /\ enableMongoDB = TRUE
    /\ mongodbUrl = MongoUrl
    /\ \E c \in SearchConfigs :
          /\ mongodbDatabases = c.databases
          /\ mongodbCollections = c.collections
          /\ store = c.store
    /\ maxCacheSize = 0
    /\ cacheTtlMinutes = 0
    /\ serverUp = TRUE

SearchTokens == {"u1", "zz"}

NextSearch ==
    \/ \E v \in SearchTokens : SearchMongoDatabase(v)
    \/ \E t \in DOMAIN tasks : PingDone(t)
    \/ \E t \in DOMAIN tasks : CloseDone(t)
    \/ \E t \in DOMAIN tasks : ConnectDone(t)
    \/ \E t \in DOMAIN tasks : QueryDone(t)
    \/ ServerFlip

SpecSearch == InitSearch /\ [][NextSearch]_vars

\* Result Cache alone: direct calls of its operations, the clock and the
\* two cache settings.
InitCache ==
    /\ InitState
    /\ fs = FileSystem(FileUsers, FileMulti, Missing)
    /\ enableMongoDB = TRUE
    /\ mongodbUrl = ""
    /\ mongodbDatabases = <<>>
    /\ mongodbCollections = <<>>
    /\ maxCacheSize = 0
    /\ cacheTtlMinutes = 0
    /\ store = StoreA
    /\ serverUp = TRUE

CacheKeys == {"u1", "u2", "u3"}
CacheDocuments == {Ann, Pen}
CacheSources == {SourceOf("db1", "users")}

NextCache ==
    \/ \E k \in CacheKeys, d \in CacheDocuments, src \in CacheSources :
          CallAddToMongoCache(k, d, src)
    \/ \E k \in CacheKeys : CallGetFromMongoCache(k)
    \/ ClearMongoCache
    \/ Tick
    \/ \E size \in CacheSizeChoices, ttl \in CacheTtlChoices : SetCacheConfig(size, ttl)

SpecCache == InitCache /\ [][NextCache]_vars

\* The extension at work: the state after activate() has loaded the
\* configured files (extension.js:76-80), both sources enabled, two databases
\* and two collections configured.
ConfiguredPaths == <<"a/db.json", "b/db.json">>

Activated ==
    LoadOutcome(FileSystem(FileUsers, FileMulti, Missing), ConfiguredPaths,
                <<"id">>, NullRaw)

ConfiguredFor(slots) ==
    /\ fs = FileSystem(FileUsers, FileMulti, Missing)
    /\ databasePaths = ConfiguredPaths
    /\ fileWatchers = SetupFileWatchers(<<>>, ConfiguredPaths)
    /\ database = Activated.db
    /\ databaseSources = Activated.src
    /\ idField = Activated.idField
    /\ rawJsonData = Activated.raw
    /\ enableJsonDatabase = TRUE
    /\ loadResult = [op |-> "load", paths |-> ConfiguredPaths, ok |-> Activated.ok,
                     invalidPaths |-> Activated.invalidPaths, idFieldBefore |-> <<"id">>]
    /\ enableMongoDB = TRUE
    /\ mongodbUrl = MongoUrl
    /\ mongodbDatabases = <<"db1", "db2">>
    /\ mongodbCollections = <<CollUsers, CollProducts>>
    /\ maxCacheSize = 0
    /\ cacheTtlMinutes = 0
    /\ store = StoreA
    /\ serverUp = TRUE
    /\ mongoClient = 0
    /\ clients = <<>>
    /\ tasks = [t \in slots |-> IdleTask]
    /\ disconnecting = 0
    /\ last = NoCall

Configured == ConfiguredFor(TaskIds)

Init ==
    /\ Configured
    /\ mongoCache = <<>>
    /\ now = 0

\* The values hovered: a key of the Local Index that also matches remotely,
\* a value only the server knows and the name of an inherited property,
\* which a document of the server carries too.
Values == {Str("a@b"), Str("u1"), Str("constructor")}

\* The network answers the calls in flight.
Network ==
    \/ \E t \in DOMAIN tasks : PingDone(t)
    \/ \E t \in DOMAIN tasks : CloseDone(t)
    \/ \E t \in DOMAIN tasks : ConnectDone(t)
    \/ \E t \in DOMAIN tasks : QueryDone(t)

\* Hovers in a debug session: the synchronous path and its background
\* searches.
Next ==
    \/ \E v \in Values : OnDidSendMessage(<<v>>, FALSE)
    \/ \E message \in OtherMessages : OnDidSendMessageOther(message)
    \/ Network
    \/ ClearMongoCache
    \/ ServerFlip
    \/ Tick

Spec == Init /\ [][Next]_vars

\* Hovers in the editor: the asynchronous path.
NextAsync ==
    \/ \E v \in Values : SearchInDatabases(v)
    \/ Network
    \/ ServerFlip
    \/ Tick

SpecAsync == Init /\ [][NextAsync]_vars

\* Objects and selections with several candidate values: the candidates
\* are tried in turn, on the synchronous and on the asynchronous path.  The
\* session has been open for a while: the cache holds the entry of a search
\* made when it began, which has expired.
InitMulti ==
    /\ Configured
    /\ now = MaxTicks * TickMs
    /\ mongoCache = <<[key |-> "u1", document |-> Ann,
                       source |-> SourceOf("db1", "users"), timestamp |-> 0]>>

NoMatch == Str("zz")
NoMatchEither == Str("yy")

CandidateLists ==
    {<<NoMatch, Str("u1"), NoMatchEither>>,
     <<NoMatch, Str("a@b"), Str("u1")>>,
     <<NoMatch>>}

NextMulti ==
    \/ NoResume /\ \E values \in CandidateLists : SearchWithMultipleValues(values)
    \/ NoResume /\ \E values \in CandidateLists : OnDidSendMessage(values, TRUE)
    \/ NoResume /\ Network
    \/ \E t \in DOMAIN tasks : Resume(t)

SpecMulti == InitMulti /\ [][NextMulti]_vars

\* Failures of the remote source: hovers on both paths while the server
\* comes and goes and the client is closed under the searches in flight
\* (disconnectMongo() of a settings change, of the toggle command or of
\* deactivate).
NextFailures ==
    \/ OnDidSendMessage(<<Str("u1")>>, FALSE)
    \/ SearchInDatabases(Str("u1"))
    \/ Network
    \/ ServerFlip
    \/ DisconnectMongo
    \/ DisconnectDone

SpecFailures == Init /\ [][NextFailures]_vars

\* The life of the connection: hovers on both paths while the server comes
\* and goes, the databases setting is changed, and the reconnect and clear
\* commands are run.
DatabaseSettings == {<<"db1", "db2">>, <<"db2">>}

NextLifecycle ==
    \/ OnDidSendMessage(<<Str("u1")>>, FALSE)
    \/ SearchInDatabases(Str("u1"))
    \/ Network
    \/ \E t \in DOMAIN tasks : ReconnectDisconnected(t)
    \/ ServerFlip
    \/ \E databases \in DatabaseSettings : ConfigChange(databases)
    \/ DisconnectDone
    \/ ReconnectMongoDB
    \/ ClearMongoCache

SpecLifecycle == Init /\ [][NextLifecycle]_vars

\* An object with several candidate values none of which the Local Index or
\* the Result Cache holds, hovered on both paths, with one slot more than
\* elsewhere for the searches it starts.
FanOutValues == <<NoMatch, Str("u1")>>

InitFanOut ==
    /\ ConfiguredFor(1..(MaxTasks + 1))
    /\ mongoCache = <<>>
    /\ now = 0

NextFanOut ==
    \/ NoResume /\ OnDidSendMessage(FanOutValues, TRUE)
    \/ NoResume /\ SearchWithMultipleValues(FanOutValues)
    \/ NoResume /\ Network
    \/ \E t \in DOMAIN tasks : Resume(t)

SpecFanOut == InitFanOut /\ [][NextFanOut]_vars

\* The remote source switched off and on: background searches while the
\* source is toggled and the URL setting is emptied and set again.
UrlSettings == {"", MongoUrl}

NextDisabled ==
    \/ SearchMongoDatabase("u1")
    \/ Network
    \/ ToggleLookupMongoDB
    \/ \E url \in UrlSettings : ConfigChangeUrl(url)
    \/ DisconnectDone

SpecDisabled == Init /\ [][NextDisabled]_vars

\* The client handle: background searches while the server comes and goes,
\* the source is toggled, the reconnect command is run and disconnectMongo()
\* is called (deactivate, extension.js:175-177).
NextConnection ==
    \/ SearchMongoDatabase("u1")
    \/ Network
    \/ ServerFlip
    \/ ToggleLookupMongoDB
    \/ DisconnectMongo
    \/ DisconnectDone
    \/ ReconnectMongoDB
    \/ \E t \in DOMAIN tasks : ReconnectDisconnected(t)

SpecConnection == Init /\ [][NextConnection]_vars

\* Automatic reload: the configured files are edited and the databasePaths
\* setting is changed, with a reindex command now and then.
PathSettings ==
    {<<>>, <<"a/db.json", "b/db.json">>, <<"b/db.json">>, <<"c.json", "a/db.json">>}

WatchedContents == {FileUsers, FileMulti, FileFlat}

NextWatch ==
    \/ \E p \in Paths, content \in WatchedContents : FileChange(p, content)
    \/ \E configPaths \in PathSettings : ChangeDatabasePaths(configPaths)
    \/ ReindexDatabase(<<"email", "id">>)

SpecWatch == Init /\ [][NextWatch]_vars

----------------------------------------------------------------------------
(* Properties of the Local Index.                                          *)

\* The id field left by the files at positions 1..i of paths, when the load
\* found the id field idf0: a structured file that declares one sets it.
RECURSIVE IdFieldLeft(_, _, _, _)
IdFieldLeft(files, paths, i, idf0) ==
    IF i = 0 THEN idf0
    ELSE IF files[paths[i]].shape = "structured" /\ files[paths[i]].idf # <<>>
    THEN files[paths[i]].idf
    ELSE IdFieldLeft(files, paths, i - 1, idf0)

\* The key a record yields under the id fields idf ("" when it yields none)
RecordKey(item, idf) ==
    IF FirstField(item, idf, 1) = 0 THEN ""
    ELSE JsString(Get(item, idf[FirstField(item, idf, 1)]))

\* The keys a source produces under the id fields idf
SourceKeys(c, idf) ==
    IF c.shape = "structured"
    THEN {RecordKey(c.data[n], idf) : n \in 1..Len(c.data)} \ {""}
    ELSE IF c.shape = "flat" THEN DOMAIN c.map
    ELSE {}

\* The record a source holds for key k: its first one with that key
SourceRecord(c, idf, k) ==
    IF c.shape = "flat" THEN c.map[k]
    ELSE c.data[CHOOSE n \in 1..Len(c.data) :
                   /\ RecordKey(c.data[n], idf) = k
                   /\ \A m \in 1..(n - 1) : RecordKey(c.data[m], idf) # k]

\* The keys the source at position i of the last load produced
LoadedKeys(i) ==
    SourceKeys(fs[loadResult.paths[i]],
               IdFieldLeft(fs, loadResult.paths, i, loadResult.idFieldBefore))

\* The record the source at position i of the last load holds for key k
LoadedRecord(i, k) ==
    SourceRecord(fs[loadResult.paths[i]],
                 IdFieldLeft(fs, loadResult.paths, i, loadResult.idFieldBefore), k)

\* The call that has just returned returned at once.
Observed == "obs" \in DOMAIN last

\* The last change of the index was a load that succeeded.
Loaded == loadResult.op = "load" /\ loadResult.ok

\* C1: first-file-wins.  After loadLocalDatabase(paths) has succeeded, every
\* key produced by two sources at positions i < j of paths (i the first that
\* produces it) is mapped by the index to source i's record and by the
\* provenance map to source i's file name.
C1_FirstFileWins ==
    Loaded =>
        \A i, j \in 1..Len(loadResult.paths) :
            i < j =>
                \A k \in LoadedKeys(i) \cap LoadedKeys(j) :
                    (\A h \in 1..(i - 1) : k \notin LoadedKeys(h)) =>
                        /\ k \in DOMAIN database
                        /\ database[k] = LoadedRecord(i, k)
                        /\ k \in DOMAIN databaseSources
                        /\ databaseSources[k] = Basename(loadResult.paths[i])

\* C2: a key present in exactly one of the loaded sources resolves, on
\* either path with the local source enabled, to that source's record with
\* that source's file name as provenance.
C2_SingleSourceKey ==
    (Loaded /\ last.op \in {"sync", "async"} /\ Observed /\ last.obs.jsonEnabled) =>
        \A i \in 1..Len(loadResult.paths) :
            (/\ last.token \in LoadedKeys(i)
             /\ \A j \in 1..Len(loadResult.paths) :
                    j # i => last.token \notin LoadedKeys(j)) =>
                /\ last.found
                /\ last.result = LoadedRecord(i, last.token)
                /\ last.source = <<Basename(loadResult.paths[i])>>

\* The first source of the last load that produces key k
FirstProducer(k) ==
    CHOOSE i \in 1..Len(loadResult.paths) :
        k \in LoadedKeys(i) /\ \A h \in 1..(i - 1) : k \notin LoadedKeys(h)

\* C24: the id-field rule.  After a load that succeeded, every record of a
\* structured source with several candidate id fields is keyed by the string
\* form of the first candidate, in order, whose value on the record is
\* neither null nor undefined: the index holds that key, with the record of
\* the first source that produces the key; a record without any candidate
\* is under no key of the index (unless another source holds it under a key).
C24_IdFieldRule ==
    Loaded =>
        \A i \in 1..Len(loadResult.paths) :
            LET c == fs[loadResult.paths[i]]
                idf == IdFieldLeft(fs, loadResult.paths, i, loadResult.idFieldBefore)
            IN (c.shape = "structured" /\ Len(idf) >= 2) =>
                  \A n \in 1..Len(c.data) :
                      LET k == RecordKey(c.data[n], idf) IN
                      IF k = ""
                      THEN \A key \in DOMAIN database :
                              database[key] = c.data[n] =>
                                  \E j \in 1..Len(loadResult.paths) :
                                      j # i /\ key \in LoadedKeys(j)
                      ELSE /\ k \in DOMAIN database
                           /\ database[k] = LoadedRecord(FirstProducer(k), k)

\* The keys the sources of the last load produce
ProducedKeys == UNION {LoadedKeys(i) : i \in 1..Len(loadResult.paths)}

\* C28: the Local Index is rebuilt wholesale on every load.  After
\* loadLocalDatabase(paths) with a non-empty path list has returned true, the
\* index holds exactly the keys the current sources produce, each with the
\* record of the first source that produces it, and the provenance map holds
\* labels for such keys only, each the file name of that source: no entry and
\* no label is left over from an earlier load or reindex.
C28_RebuiltWholesale ==
    (Loaded /\ Len(loadResult.paths) > 0) =>
        /\ DOMAIN database = ProducedKeys
        /\ \A k \in DOMAIN database :
               database[k] = LoadedRecord(FirstProducer(k), k)
        /\ DOMAIN databaseSources \subseteq ProducedKeys
        /\ \A k \in DOMAIN databaseSources :
               databaseSources[k] = Basename(loadResult.paths[FirstProducer(k)])

\* C29: index and provenance stay consistent.  After any sequence of
\* loadLocalDatabase and reindexDatabase calls the keys of the index are the
\* keys that have a source label: every local hit has a provenance, and no key
\* that is not indexed has a label.
C29_IndexMatchesProvenance == DOMAIN database = DOMAIN databaseSources

\* C30: loading is a function of the sources alone.  A loadLocalDatabase call
\* made after any earlier load or reindex (a second load of the same files
\* included) leaves the index the same call leaves when it is the first call
\* after construction, and the id field it uses for a structured source that
\* declares none is the one used then, not one left by a file processed
\* before it, by a previous load or by a previous reindex.
C30_LoadDependsOnSourcesOnly ==
    (loadResult.op = "load" /\ Len(loadResult.paths) > 0) =>
        /\ database = LoadOutcome(fs, loadResult.paths, <<"id">>, NullRaw).db
        /\ \A i \in 1..Len(loadResult.paths) :
               LET c == fs[loadResult.paths[i]] IN
               (c.shape = "structured" /\ c.idf = <<>>) =>
                   IdFieldLeft(fs, loadResult.paths, i, loadResult.idFieldBefore)
                       = <<"id">>

\* C32: a failed load leaves the index usable.  Whenever loadLocalDatabase
\* returns false (no valid source, or an exception while a file is read or
\* parsed), the Local Index and its source labels are what they were before
\* the call.
C32_FailedLoadKeepsIndex ==
    [][(loadResult'.op = "load" /\ ~loadResult'.ok) =>
           /\ database' = database
           /\ databaseSources' = databaseSources]_vars

\* C38: a local hit comes only from the sources.  After a load that
\* succeeded, the read of the Local Index made by searchInDatabases and by
\* searchSynchronously returns a record only for a token that is a key a
\* loaded source produces, and every key a loaded source produces is indexed,
\* the tokens that name an inherited property of a plain object, such as
\* "constructor" or "toString", included.
C38_LocalHitOnlyFromSources ==
    Loaded =>
        /\ (last.op \in {"sync", "async"} /\ last.found /\ last.local) =>
               /\ last.token \in ProducedKeys
               /\ last.result = LoadedRecord(FirstProducer(last.token), last.token)
        /\ ProducedKeys \subseteq DOMAIN database

\* The records a file holds
RecordsOf(c) ==
    IF c.shape = "structured" THEN {c.data[n] : n \in 1..Len(c.data)}
    ELSE IF c.shape = "flat" THEN {c.map[k] : k \in DOMAIN c.map}
    ELSE {}

\* C3: local precedence.  On either path, a token the Local Index holds is
\* resolved, when the local source is enabled, to the record of the index
\* with the label of the file that owns the record, without a read of the
\* Result Cache, a remote query or a connection; when the local source is
\* disabled the Local Index is not consulted.
C3_LocalPrecedence ==
    (last.op \in {"sync", "async"} /\ Observed) =>
        /\ (last.obs.jsonEnabled /\ last.obs.inIndex) =>
              /\ last.found
              /\ last.local
              /\ last.result = database[last.token]
              /\ ~last.cacheRead
              /\ ~last.remote
              /\ \E p \in Paths :
                    /\ last.result \in RecordsOf(fs[p])
                    /\ last.source = <<Basename(p)>>
        /\ ~last.obs.jsonEnabled => ~last.local

\* The source at position i of the last load exists and is well formed.
ValidSource(i) == fs[loadResult.paths[i]].shape \in {"structured", "flat"}

\* C15: a malformed source is skipped like a missing one.  After a load of
\* a list that holds a malformed file and at least one well-formed file, the
\* load has succeeded and every key of every well-formed file of the list is
\* indexed (the names inherited from Object.prototype apart).
C15_MalformedSkipped ==
    (/\ loadResult.op = "load"
     /\ \E i \in 1..Len(loadResult.paths) : fs[loadResult.paths[i]].shape = "invalid"
     /\ \E i \in 1..Len(loadResult.paths) : ValidSource(i)) =>
        /\ loadResult.ok
        /\ \A i \in 1..Len(loadResult.paths) :
              ValidSource(i) =>
                  \A k \in LoadedKeys(i) \ ObjectPrototypeKeys : k \in DOMAIN database

\* C16: missing files are optional.  A load skips the paths that do not
\* exist and indexes the files after them; it returns true exactly when it
\* has loaded at least one source.
C16_MissingOptional ==
    loadResult.op = "load" =>
        /\ loadResult.ok <=> \E i \in 1..Len(loadResult.paths) : ValidSource(i)
        /\ \A i \in 1..Len(loadResult.paths) :
              fs[loadResult.paths[i]].shape = "missing" =>
                  \E n \in 1..Len(loadResult.invalidPaths) :
                      loadResult.invalidPaths[n] = loadResult.paths[i]
        /\ \A i, j \in 1..Len(loadResult.paths) :
              (i < j /\ fs[loadResult.paths[i]].shape = "missing" /\ ValidSource(j)) =>
                  \A k \in LoadedKeys(j) \ ObjectPrototypeKeys : k \in DOMAIN database

\* C18: reindexDatabase(newIdField) re-derives the index from the records
\* of the sources of the last load.  After it has succeeded on structured
\* sources, the keys of the index are the keys the records of those sources
\* yield under newIdField, and each key resolves to a record that yields it.
C18_ReindexCoversSources ==
    (/\ loadResult.op = "reindex"
     /\ loadResult.ok
     /\ loadResult.paths # <<>>
     /\ \A i \in 1..Len(loadResult.paths) :
           fs[loadResult.paths[i]].shape = "structured") =>
        /\ DOMAIN database =
              UNION {SourceKeys(fs[loadResult.paths[i]], idField) :
                         i \in 1..Len(loadResult.paths)}
        /\ \A k \in DOMAIN database :
              \E i \in 1..Len(loadResult.paths) :
                  \E n \in 1..Len(fs[loadResult.paths[i]].data) :
                      /\ database[k] = fs[loadResult.paths[i]].data[n]
                      /\ RecordKey(database[k], idField) = k

----------------------------------------------------------------------------
(* Properties of the Result Cache.                                         *)

\* C10: cache round trip and expiry.  A getFromMongoCache(token) made right
\* after addToMongoCache(token, r, s) returns r and s; a getFromMongoCache
\* made when more than the configured time-to-live has passed since the
\* entry was inserted returns absent and removes the entry, so that the
\* cache holds one entry less.
C10_RoundTripAndExpiry ==
    last.op = "get" =>
        /\ (last.prev.op = "add" /\ last.prev.key = last.key /\ last.prev.at = last.at) =>
               (last.hit /\ last.document = last.prev.document
                         /\ last.source = last.prev.source)
        /\ (last.present /\ last.at - last.timestamp > last.ttl) =>
               (/\ ~last.hit
                /\ CachePos(mongoCache, last.key) = 0
                /\ last.sizeAfter = last.sizeBefore - 1
                /\ Len(mongoCache) = last.sizeAfter)

\* An entry inserted by addToMongoCache has been read back at once, and a
\* later read has found an entry older than the time-to-live.
C10_Witness ==
    /\ last.op = "get"
    /\ last.present
    /\ last.at - last.timestamp > last.ttl
    /\ last.sizeBefore = 2

\* C11: eviction is first-in first-out.  An addToMongoCache of a token the
\* cache does not hold, made when the cache holds as many entries as the
\* configured capacity, removes the entry that was inserted first, also when
\* that entry has just been read, keeps every other entry as it is and puts
\* the new entry last.
C11_FifoEviction ==
    [][(/\ last'.op = "add"
        /\ Len(mongoCache) > 0
        /\ Len(mongoCache) = GetMaxCacheSize
        /\ CachePos(mongoCache, last'.key) = 0) =>
           /\ CachePos(mongoCache', Head(mongoCache).key) = 0
           /\ Len(mongoCache') = Len(mongoCache)
           /\ \A i \in 2..Len(mongoCache) : mongoCache'[i - 1] = mongoCache[i]
           /\ mongoCache'[Len(mongoCache')].key = last'.key
           /\ mongoCache'[Len(mongoCache')].document = last'.document
      ]_vars

\* A third token has been inserted into a cache of capacity two that was
\* full, right after the token inserted first had been read: the token read
\* is gone and the other one is kept.
C11_Witness ==
    /\ last.op = "add"
    /\ last.sizeBefore = 2
    /\ GetMaxCacheSize = 2
    /\ last.read # ""
    /\ last.read # last.key
    /\ CachePos(mongoCache, last.read) = 0
    /\ Len(mongoCache) = 2
    /\ mongoCache[2].key = last.key

\* C35: on overflow the evicted entry is the oldest one by its stored
\* timestamp.  For any sequence of insertions, the re-insertion of a token
\* already cached (which refreshes its timestamp) included, an entry that
\* addToMongoCache removes has the smallest timestamp of the entries held.
C35_EvictsOldestTimestamp ==
    [][last'.op = "add" =>
           \A i \in 1..Len(mongoCache) :
               CachePos(mongoCache', mongoCache[i].key) = 0 =>
                   \A j \in 1..Len(mongoCache) :
                       mongoCache[i].timestamp <= mongoCache[j].timestamp
      ]_vars

\* C36: re-inserting a token that is already cached evicts nothing.
\* addToMongoCache(t, ...) with t present replaces the entry of t only: every
\* other entry is still held, unchanged, and the size of the cache is
\* unchanged, also when the cache is at capacity.
C36_ReinsertEvictsNothing ==
    [][(last'.op = "add" /\ CachePos(mongoCache, last'.key) # 0) =>
           /\ Len(mongoCache') = Len(mongoCache)
           /\ \A i \in 1..Len(mongoCache) :
                  mongoCache[i].key # last'.key =>
                      \E j \in 1..Len(mongoCache') : mongoCache'[j] = mongoCache[i]
           /\ CachePos(mongoCache', last'.key) # 0
      ]_vars

\* C12: the cache never holds more entries than the capacity configured at
\* the time.
C12_CapacityBounded == Len(mongoCache) <= GetMaxCacheSize

----------------------------------------------------------------------------
(* Properties of the Remote Search Client.                                 *)

\* The positions <<database, collection>> of the configured lists in
\* database-major, collection-minor order, without the entries that lack a
\* name or search fields.
SearchOrder(dbs, colls) ==
    SelectSeq([n \in 1..(Len(dbs) * Len(colls)) |->
                  <<((n - 1) \div Len(colls)) + 1, ((n - 1) % Len(colls)) + 1>>],
              LAMBDA pos : ValidCollection(colls[pos[2]]))

IsPrefix(a, b) == Len(a) <= Len(b) /\ \A n \in 1..Len(a) : a[n] = b[n]

\* What the collection at position pos holds for the token
DocumentAt(dbs, colls, pos, token) ==
    FindOne(store[<<DbOf(dbs[pos[1]]), colls[pos[2]].collection>>], colls[pos[2]], token)

\* The query of a task cannot fail: the server answers, the client is
\* connected and the server accepts the search fields.
QueryAnswers(task) ==
    /\ serverUp
    /\ clients[task.client] = "open"
    /\ \A i \in 1..Len(task.colls[task.ci].searchFields) :
          task.colls[task.ci].searchFields[i] \notin BadFields

\* C7: database-major, collection-minor search.  The queries a search has
\* made are the start of the configured targets taken database by database
\* and, within a database, collection by collection; with no database
\* configured the default database is the only target; a query that finds a
\* document ends the search, which returns that document, and a search
\* returns nothing only after the last target.
C7_DatabaseMajorOrder ==
    [][\A t \in DOMAIN tasks : tasks'[t] # tasks[t] =>
        /\ tasks'[t].pc = "query" =>
              /\ tasks'[t].log # <<>>
              /\ IsPrefix(tasks'[t].log, SearchOrder(tasks'[t].dbs, tasks'[t].colls))
              /\ tasks'[t].log[Len(tasks'[t].log)] = <<tasks'[t].di, tasks'[t].ci>>
              /\ tasks'[t].dbs = DatabasesToSearch(mongodbDatabases)
              /\ tasks'[t].colls = mongodbCollections
              /\ Len(mongodbDatabases) = 0 =>
                    (tasks'[t].di = 1 /\ DbOf(tasks'[t].dbs[1]) = DefaultDb)
        /\ (tasks[t].pc = "query" /\ tasks'[t].pc = "query") =>
              Len(tasks'[t].log) = Len(tasks[t].log) + 1
        /\ (tasks[t].pc = "query" /\ tasks'[t].pc = "idle") =>
              /\ last'.log = tasks[t].log
              /\ last'.found =>
                    last'.result = DocumentAt(tasks[t].dbs, tasks[t].colls,
                                              <<tasks[t].di, tasks[t].ci>>, tasks[t].token)
              /\ ~last'.found =>
                    last'.log = SearchOrder(tasks[t].dbs, tasks[t].colls)
        /\ (/\ tasks[t].pc = "query"
            /\ QueryAnswers(tasks[t])
            /\ DocumentAt(tasks[t].dbs, tasks[t].colls, <<tasks[t].di, tasks[t].ci>>,
                          tasks[t].token) # NullDoc) =>
              (tasks'[t].pc = "idle" /\ last'.found)
      ]_vars

\* A search has returned a document of the second database after it had
\* queried both collections of the first.
C7_Witness ==
    /\ last.op = "search"
    /\ last.found
    /\ last.log = <<<<1, 1>>, <<1, 2>>, <<2, 1>>>>

\* C8: the provenance of a remote match names the database and the
\* collection that produced the document, so that matches from two
\* collections of one database differ in provenance.
C8_ProvenanceNamesCollection ==
    (last.op = "search" /\ last.found) =>
        LET pos == last.log[Len(last.log)]
            db == DatabasesToSearch(mongodbDatabases)[pos[1]]
            coll == mongodbCollections[pos[2]].collection
        IN /\ last.source = <<"MongoDB", DbDisplay(db), coll>>
           /\ \A c \in CollectionNames \ {coll} : SourceOf(db, c) # last.source

\* C9: a remote search that returns a document has inserted it into the
\* Result Cache under the searched token, with the provenance it returns; a
\* search that returns nothing leaves the cache as it was.
C9_SearchFillsCache ==
    [][(last'.op \in {"search", "async"} /\ ~last'.local) =>
          IF last'.found
          THEN LET i == CachePos(mongoCache', last'.token) IN
               /\ i # 0
               /\ mongoCache'[i].document = last'.result
               /\ mongoCache'[i].source = last'.source
               /\ mongoCache'[i].timestamp = now
          ELSE mongoCache' = mongoCache
      ]_vars

\* A background search has returned a document at a time when the cache held
\* an older entry for the token.
C9_Witness ==
    /\ last.op = "search"
    /\ last.found
    /\ now > 0
    /\ CachePos(mongoCache, last.token) # 0
    /\ mongoCache[CachePos(mongoCache, last.token)].timestamp = now

\* The query of a task is certain to fail: the server is down or rejects a
\* search field.
QueryFails(task) ==
    \/ ~serverUp
    \/ \E i \in 1..Len(task.colls[task.ci].searchFields) :
          task.colls[task.ci].searchFields[i] \in BadFields

\* C17: a failed query on one collection, or an entry without a name or
\* search fields, does not abort the remote scan.  A search whose query has
\* been answered or has failed either returns the document that query found,
\* or queries the next configured target that has a name and search fields
\* (database by database, collection by collection), or, only when no such
\* target is left, returns nothing; it never ends with an exception, and a
\* query that fails while a target is left is always followed by the query
\* of that target.
C17_FailureDoesNotAbort ==
    [][\A t \in DOMAIN tasks : (tasks[t].pc = "query" /\ tasks'[t] # tasks[t]) =>
          LET task == tasks[t]
              order == SearchOrder(task.dbs, task.colls)
          IN /\ tasks'[t].pc \in {"query", "idle"}
             /\ tasks'[t].pc = "query" =>
                   /\ Len(task.log) < Len(order)
                   /\ tasks'[t].log = Append(task.log, order[Len(task.log) + 1])
                   /\ <<tasks'[t].di, tasks'[t].ci>> = order[Len(task.log) + 1]
             /\ tasks'[t].pc = "idle" =>
                   /\ last'.op = "search"
                   /\ ~last'.rejected
                   /\ last'.found =>
                         last'.result = DocumentAt(task.dbs, task.colls,
                                                   <<task.di, task.ci>>, task.token)
                   /\ ~last'.found => task.log = order
             /\ (QueryFails(task) /\ Len(task.log) < Len(order)) =>
                   tasks'[t].pc = "query"
      ]_vars

\* A search has returned a document of a later collection after the query on
\* the first collection, whose search field the server rejects, had failed.
C17_Witness ==
    /\ last.op = "search"
    /\ last.found
    /\ mongodbCollections[1] = CollBadField
    /\ last.log[1] = <<1, 1>>
    /\ Len(last.log) >= 2

----------------------------------------------------------------------------
(* Properties of the Lookup Coordinator.                                   *)

\* The server holds a document for the token in one of the configured
\* targets.
RemoteMatch(k) ==
    \E n \in 1..Len(SearchOrder(DatabasesToSearch(mongodbDatabases), mongodbCollections)) :
        DocumentAt(DatabasesToSearch(mongodbDatabases), mongodbCollections,
                   SearchOrder(DatabasesToSearch(mongodbDatabases), mongodbCollections)[n],
                   k) # NullDoc

\* The cache entry of a token
CacheEntry(k) == mongoCache[CachePos(mongoCache, k)]

C5_SyncNeverBlocks ==
    last.op = "sync" =>
        /\ last.found => (last.local \/ last.cacheRead)
        /\ (~last.obs.inIndex /\ ~last.obs.cached) => (~last.found /\ last.result = Null)

\* C6: the two-hover pattern.  A synchronous resolve of a token that is in
\* neither the Local Index nor the Result Cache and that matches remotely
\* (remote source enabled, configured, reachable) returns absent and starts
\* a background search; a synchronous resolve of a token that is not in the
\* Local Index and of which the cache holds an unexpired entry returns the
\* document of that entry with its provenance suffixed as cached.
C6_TwoHoverPattern ==
    [][last'.op = "sync" =>
          /\ (/\ last'.token \notin DOMAIN database
              /\ ~CachedNow(last'.token)
              /\ enableMongoDB /\ mongodbUrl # "" /\ serverUp
              /\ RemoteMatch(last'.token)) =>
                 /\ ~last'.found
                 /\ \E t \in DOMAIN tasks :
                       /\ tasks[t].pc = "idle"
                       /\ tasks'[t].pc # "idle"
                       /\ tasks'[t].token = last'.token
          /\ (last'.token \notin DOMAIN database /\ CachedNow(last'.token)) =>
                 /\ last'.found
                 /\ last'.result = CacheEntry(last'.token).document
                 /\ last'.source = Append(CacheEntry(last'.token).source, "(cached)")
      ]_vars

----------------------------------------------------------------------------
(* Properties of the resolution of several candidates.                     *)

\* The call, if any, whose loop is about to go on: the position it has
\* reached and its candidates.
Resuming == {t \in DOMAIN tasks : tasks[t].pc = "resume"}
ReachedBefore == IF Resuming = {} THEN 0 ELSE tasks[CHOOSE t \in Resuming : TRUE].vi

\* The remote source is enabled and configured: a lookup the Local Index
\* does not answer waits for the server.
RemoteOn == enableMongoDB /\ mongodbUrl # ""

\* The task is waiting for the network.
Searching(task) == task.pc \in {"ping", "close", "connect", "query"}

\* C13: resolution of several candidates.  searchWithMultipleValuesSync
\* returns the result of the first candidate, in the given order, that the
\* single lookup resolves, with matchedValue that candidate, and does not
\* look up the candidates after it; searchWithMultipleValues looks the
\* candidates up one after the other, each after the one before has resolved
\* to nothing, returns the first result with matchedValue that candidate and
\* starts no lookup after it; both return absent after the last candidate.
C13_FirstCandidateWins ==
    [][/\ (last'.op = "sync" /\ last'.isObject) =>
             LET values == last'.values
                 hits == {i \in 1..Len(values) :
                             SearchSynchronously(values[i], mongoCache).found}
             IN IF hits = {}
                THEN ~last'.found /\ last'.attempts = Len(values)
                ELSE LET j == CHOOSE i \in hits : \A h \in hits : i <= h
                         r == SearchSynchronously(values[j], mongoCache)
                     IN /\ last'.found
                        /\ last'.matchedValue = values[j]
                        /\ last'.attempts = j
                        /\ last'.result = r.result
                        /\ last'.source = r.source
                        /\ \A n \in 1..Len(mongoCache) :
                              (\A i \in 1..j : JsString(values[i]) # mongoCache[n].key) =>
                                  CachePos(mongoCache', mongoCache[n].key) # 0
       /\ \A t \in DOMAIN tasks :
             /\ (~Searching(tasks[t]) /\ Searching(tasks'[t]) /\ tasks'[t].origin = "multi") =>
                   /\ tasks'[t].vi = ReachedBefore + 1
                   /\ tasks'[t].vi <= Len(tasks'[t].values)
                   /\ tasks'[t].token = JsString(tasks'[t].values[tasks'[t].vi])
                   /\ ~Truthy(DbRead(database, tasks'[t].token))
                   /\ tasks[t].pc = "resume" => tasks'[t].values = tasks[t].values
             /\ (Searching(tasks[t]) /\ tasks[t].origin = "multi" /\ ~Searching(tasks'[t])) =>
                   \/ /\ tasks'[t].pc = "resume"
                      /\ tasks'[t].values = tasks[t].values
                      /\ tasks'[t].vi = tasks[t].vi
                   \/ /\ tasks'[t].pc = "idle"
                      /\ tasks[t].pc = "query"
                      /\ last'.op = "multi"
                      /\ last'.found
                      /\ ~last'.local
                      /\ last'.values = tasks[t].values
                      /\ last'.attempts = tasks[t].vi
                      /\ last'.result =
                            DocumentAt(tasks[t].dbs, tasks[t].colls,
                                       <<tasks[t].di, tasks[t].ci>>, tasks[t].token)
       /\ last'.op = "multi" =>
             /\ \A t \in DOMAIN tasks : tasks'[t].origin = "multi" => tasks'[t] = tasks[t]
             /\ \A t \in DOMAIN tasks : tasks'[t].pc # "resume"
             /\ last'.found =>
                   /\ last'.attempts \in 1..Len(last'.values)
                   /\ last'.matchedValue = last'.values[last'.attempts]
                   /\ last'.token = JsString(last'.matchedValue)
                   /\ last'.local =>
                         /\ RemoteOn => last'.attempts = ReachedBefore + 1
                         /\ last'.result = DbRead(database, last'.token)
             /\ ~last'.found =>
                   /\ last'.attempts = Len(last'.values)
                   /\ RemoteOn => ReachedBefore = Len(last'.values)
      ]_vars

\* Of three candidates the first is known nowhere and the second is in the
\* Result Cache, put there by an asynchronous resolution of the same
\* candidates that found it on the server at its second attempt: the
\* synchronous resolution has returned the second one.
C13_Witness ==
    /\ last.op = "sync"
    /\ last.isObject
    /\ last.found
    /\ last.values = <<NoMatch, Str("u1"), NoMatchEither>>
    /\ last.matchedValue = Str("u1")
    /\ last.attempts = 2
    /\ last.cacheRead

----------------------------------------------------------------------------
(* Properties of failure handling.                                         *)

\* C14: no failure escapes a resolution.  Whatever the server and the
\* connection do, a call of searchMongoDatabase (awaited by a hover or
\* detached in the background), an asynchronous resolution and a synchronous
\* one end with a match or with absent, never with an exception or a
\* rejected promise.
C14_NoFailureEscapes ==
    last.op \in {"search", "async", "multi", "sync"} =>
        /\ "rejected" \in DOMAIN last => ~last.rejected
        /\ last.found => Truthy(last.result)
        /\ ~last.found => ~Truthy(last.result)

\* A search has ended with absent for a token the server holds: it had
\* connected and queried, and the server had stopped answering.
C14_Witness ==
    /\ last.op \in {"search", "async"}
    /\ ~last.found
    /\ ~last.rejected
    /\ last.log # <<>>
    /\ ~serverUp
    /\ RemoteMatch(last.token)

----------------------------------------------------------------------------
(* Properties of the connection lifecycle.                                 *)

\* Whether an entry of the cache was already in the cache before.
Survives(cache, before) ==
    \E i \in 1..Len(cache) : \E j \in 1..Len(before) : cache[i] = before[j]

\* C19: the Result Cache is cleared by the clear command, by a change of
\* the remote settings and by the reconnect command.  When the clear command
\* has run the cache is empty; when the handler of a change of the remote
\* settings has run to its end, and when the reconnect command has shown its
\* message, the cache holds no entry it held when the handler or the
\* command began.
C19_CacheClearedOnInvalidation ==
    [][/\ last'.op = "clear" => mongoCache' = <<>>
       /\ (last'.op = "configChange" /\ last'.handled) =>
             ~Survives(mongoCache', mongoCache)
       /\ last'.op = "reconnect" => ~Survives(mongoCache', last'.before)
      ]_vars

\* C20: connectMongo returns null only when no connection URL is
\* configured.  A reconnect command whose connectMongo call returned null
\* without an exception, and which therefore reports that no URL is
\* configured, has run with an empty URL setting.
C20_NullOnlyWhenUnconfigured ==
    (last.op = "reconnect" /\ last.client = 0 /\ ~last.rejected) => mongodbUrl = ""

\* C21: with no URL configured, or with the remote source disabled,
\* searchMongoDatabase is a silent no-op.  While the source is disabled or
\* the URL is empty no search takes a slot, so that every searchMongoDatabase
\* call returns at once; and a call that returns at once returns nothing, has
\* made no query, and leaves the client handle, the clients, the searches in
\* flight and the Result Cache as they were.
C21_SilentNoOp ==
    [][/\ (~enableMongoDB \/ mongodbUrl = "") =>
             \A t \in DOMAIN tasks :
                (tasks[t].pc = "idle" /\ tasks'[t].pc # "idle") =>
                    tasks'[t].origin = "reconnect"
       /\ (last'.op = "search" /\ last'.atOnce) =>
             /\ ~last'.found
             /\ last'.result = NullDoc
             /\ last'.log = <<>>
             /\ ~last'.rejected
             /\ UNCHANGED <<mongoClient, clients, tasks, disconnecting, mongoCache>>
      ]_vars

\* A search called with the source disabled has returned at once while the
\* cache held the document of an earlier search.
C21_Witness ==
    /\ last.op = "search"
    /\ last.atOnce
    /\ ~enableMongoDB
    /\ mongodbUrl # ""
    /\ mongoCache # <<>>

\* A search called with an empty URL has returned at once while a client
\* was still being closed.
C21_WitnessNoUrl ==
    /\ last.op = "search"
    /\ last.atOnce
    /\ enableMongoDB
    /\ mongodbUrl = ""
    /\ disconnecting # 0

----------------------------------------------------------------------------
(* Properties of the automatic reload.                                     *)

\* Whether the list holds the path.
InList(paths, p) == \E i \in 1..Len(paths) : paths[i] = p

C23_WitnessOldList ==
    /\ last.op = "fileChange"
    /\ last.path = "a/db.json"
    /\ last.fired = 0
    /\ databasePaths = <<"b/db.json">>

----------------------------------------------------------------------------
(* Properties of the debugger enrichment.                                  *)

\* The value is a key of the Local Index (consulted when the local source
\* is enabled) or has an unexpired entry in the Result Cache.
Hits(value) ==
    \/ enableJsonDatabase /\ JsString(value) \in DOMAIN database
    \/ CachedNow(JsString(value))

\* The record that value resolves to: the one of the index before the one
\* of the cache.
HitRecord(value) ==
    IF enableJsonDatabase /\ JsString(value) \in DOMAIN database
    THEN database[JsString(value)]
    ELSE mongoCache[CachePos(mongoCache, JsString(value))].document

\* C25: the frame of the debugger enrichment.  A message that is not a
\* successful evaluate response with a defined result is left as received;
\* so is an evaluate response none of whose values is in the Local Index or
\* the Result Cache.  When a value is, the result becomes the original
\* result followed by the header and by the record of the first such value,
\* variablesReference becomes 0, and nothing else of the message changes.
C25_EnrichmentFrame ==
    [][/\ last'.op = "message" => last'.sent = last'.message
       /\ last'.op = "sync" =>
             LET values == last'.values
                 message == last'.message
                 sent == last'.sent
             IN IF \E i \in 1..Len(values) : Hits(values[i])
                THEN LET i == CHOOSE i \in 1..Len(values) :
                                  /\ Hits(values[i])
                                  /\ \A j \in 1..(i - 1) : ~Hits(values[j])
                     IN /\ Len(sent.result) > Len(message.result) + 1
                        /\ SubSeq(sent.result, 1, Len(message.result)) = message.result
                        /\ sent.result[Len(message.result) + 1] = "Database Lookup"
                        /\ sent.result[Len(sent.result)] = HitRecord(values[i])
                        /\ sent.variablesReference = 0
                        /\ [sent EXCEPT !.result = message.result,
                                        !.variablesReference =
                                            message.variablesReference] = message
                ELSE sent = message
      ]_vars

----------------------------------------------------------------------------
(* The hover of the editor with its lookup time.                           *)

\* What is under the pointer: a literal held by the Local Index, by the server
\* or by neither, or the identifier of a variable that resolves to one
\* primitive, to an object or to nothing.
HoverInputs ==
    {[word |-> "a@b", isVariable |-> FALSE, isObject |-> FALSE, values |-> <<>>],
     [word |-> "u1", isVariable |-> FALSE, isObject |-> FALSE, values |-> <<>>],
     [word |-> "zz", isVariable |-> FALSE, isObject |-> FALSE, values |-> <<>>],
     [word |-> "user", isVariable |-> TRUE, isObject |-> FALSE, values |-> <<>>],
     [word |-> "user", isVariable |-> TRUE, isObject |-> FALSE,
      values |-> <<Str("a@b")>>],
     [word |-> "user", isVariable |-> TRUE, isObject |-> FALSE,
      values |-> <<Str("u1")>>],
     [word |-> "user", isVariable |-> TRUE, isObject |-> TRUE,
      values |-> <<NoMatch, Str("a@b")>>],
     [word |-> "user", isVariable |-> TRUE, isObject |-> TRUE,
      values |-> <<NoMatch, Str("u1")>>]}

NextTiming ==
    \/ NoResume /\ \E x \in HoverInputs :
                       ProvideHover(x.word, x.isVariable, x.isObject, x.values)
    \/ NoResume /\ Network
    \/ \E t \in DOMAIN tasks : ResumeHover(t)
    \/ ToggleLookupJsonDatabase
    \/ ServerFlip

SpecTiming == Init /\ [][NextTiming]_vars

----------------------------------------------------------------------------
(* Properties of the lookup time.                                          *)

\* C27: the elapsed time reported with a match is the sum of the time spent in
\* every sub-lookup attempted for the resolution, the unsuccessful ones
\* included: the lookup time of a hover that shows a record equals the total
\* cost of the literal search, of the searches of the earlier values that
\* found nothing and of the local and remote steps of the search that matched.
C27_ElapsedTimeIsTotal ==
    (last.op = "provide" /\ last.found) => last.lookupTime = last.spent

----------------------------------------------------------------------------
(* The remote source switched off and on while resolutions are made.       *)

NextSwitch ==
    \/ OnDidSendMessage(<<Str("u1")>>, FALSE)
    \/ SearchInDatabases(Str("u1"))
    \/ Network
    \/ ToggleLookupMongoDB
    \/ DisconnectDone

SpecSwitch == Init /\ [][NextSwitch]_vars

\* C31: when the remote source is disabled no resolution returns a
\* remote-derived record.  A resolution of either path that returns a record
\* while hoverLookup.enableMongoDB is off returns a record of the Local Index,
\* never a document with MongoDB provenance, a document cached before the
\* source was disabled included.
C31_NoRemoteRecordWhenDisabled ==
    (last.op \in {"sync", "async"} /\ last.found /\ ~enableMongoDB) => last.local

----------------------------------------------------------------------------
(* Properties of the Result Cache under concurrent searches.               *)

\* C33: clear is not undone by earlier work.  After clearMongoCache() has
\* returned the cache holds no token until a remote search started after the
\* clear succeeds; a search already in flight at the clear does not put its
\* result back.  A search takes more than one step (it awaits connectMongo
\* before its first query), so a search that ends in the step that follows
\* the clear was in flight at the clear: that step leaves the cache empty.
C33_ClearNotUndone == [][last.op = "clear" => mongoCache' = <<>>]_vars

\* No disconnectMongo and no search or reconnect is in flight.
Quiescent ==
    /\ disconnecting = 0
    /\ \A t \in DOMAIN tasks : tasks[t].pc \in {"idle", "resume"}

\* C34: no connection is orphaned.  Under every interleaving of connectMongo,
\* disconnectMongo and the searches, a client that is connected and not closed
\* is the one the shared handle references once the disconnect and the
\* operations in flight have completed, and a connectMongo whose connect
\* succeeds returns the client it has connected: the handle still references
\* that client when the connect returns.
C34_NoOrphanedClient ==
    [][/\ Quiescent' =>
              \A c \in 1..Len(clients') : clients'[c] = "open" => mongoClient' = c
       /\ \A t \in DOMAIN tasks :
              (/\ tasks[t].pc = "connect"
               /\ clients[tasks[t].client] = "new"
               /\ clients'[tasks[t].client] = "open") =>
                  mongoClient' = tasks[t].client
      ]_vars

\* C37: a synchronous resolution is read-only apart from purging.  The
\* searchSynchronously call of a debug hover on a primitive value leaves the
\* Local Index and its source labels unchanged, leaves the connection handle
\* and the clients unchanged (when it finds the record the handler calls
\* nothing else), and changes the Result Cache at most by removing the expired
\* entry of the token it read: it inserts nothing and reorders nothing.
C37_SyncReadOnly ==
    [][(last'.op = "sync" /\ ~last'.isObject) =>
           LET k == JsString(last'.values[1])
               i == CachePos(mongoCache, k)
           IN /\ database' = database
              /\ databaseSources' = databaseSources
              /\ last'.found => (mongoClient' = mongoClient /\ clients' = clients)
              /\ \/ mongoCache' = mongoCache
                 \/ /\ i # 0
                    /\ now - mongoCache[i].timestamp > GetCacheTTL
                    /\ mongoCache' = SelectSeq(mongoCache, LAMBDA e : e.key # k)
      ]_vars

\* A synchronous resolution has read a token whose cache entry had expired
\* and has removed the entry.
C37_Witness ==
    /\ last.op = "sync"
    /\ ~last.isObject
    /\ last.purged
    /\ ~last.found
    /\ CachePos(mongoCache, last.token) = 0

\* A synchronous resolution has returned an entry of the Result Cache that
\* has not expired, and the entry is still held.
C37_WitnessHit ==
    /\ last.op = "sync"
    /\ last.found
    /\ ~last.local
    /\ ~last.purged
    /\ CachePos(mongoCache, last.token) # 0

----------------------------------------------------------------------------
(* Properties of the order of the sub-lookups.                             *)

\* The searches a step starts: the slots that hold a search in flight after
\* the step and held none before it.
Started ==
    {t \in DOMAIN tasks : /\ tasks[t].pc \in {"idle", "resume"}
                          /\ tasks'[t].pc \notin {"idle", "resume"}}

\* C26: no parallel fan-out.  A resolution, synchronous or asynchronous,
\* never has more than one remote search in flight: a step of a resolution
\* (the synchronous resolution with the background searches it starts, the
\* asynchronous one from its call or from the return of the search of one
\* candidate to the search of the next) starts at most one search.
C26_NoParallelFanOut == [][Cardinality(Started) <= 1]_vars

====
